---- MODULE Spec2Model ----
(***************************************************************************)
(* Model of the price-aggregation pipeline of Analitika-Viteka:            *)
(*   ExcelProcessor.process_all       (src/src/excel_processor.py)         *)
(*   OutputFileGenerator              (src/src/output_generator.py)        *)
(*   AppConfig / CompetitorConfig     (src/src/models.py)                  *)
(*                                                                         *)
(* Strings of the source written in Cyrillic are transliterated, because   *)
(* the TLA+ lexer accepts ASCII only: the sheet title "Markups" stands for *)
(* the source's markups-sheet title, "Data" for the main sheet, "Energy",  *)
(* "Vladivostok" and "Auto" for the names of the special condition.        *)
(***************************************************************************)
EXTENDS Integers, Sequences, FiniteSets, TLC

VARIABLES
    config,            \* AppConfig: the configuration the processor was built with
    files,             \* the output files written so far: path -> saved workbook
    pc,                \* position of process_all
    idx,               \* index of the current competitor in enabled_competitors
    collected,         \* process_all local: competitor name -> city -> field -> value
    city_competitors,  \* process_all local: city -> list of competitors (presence)
    results,           \* process_all local: the list it returns
    progress,          \* the calls made to progress_callback, in order
    wb,                \* generator.wb: TRUE once a workbook exists
    ws,                \* generator.ws: cells of the sheet "Data", <<row, col>> -> cell
    markups_ws,        \* cells of the sheet "Markups" (empty while it does not exist)
    data,              \* generator.data: city -> competitor name -> field -> value
    row_map,           \* generator.row_map: city -> row key -> row
    markups_row_map,   \* generator.markups_row_map: competitor name -> row
    current_row,       \* _create_empty_rows local: the next free row of "Data"
    save_returned,     \* what generator.save() returned to process_all: "pending" before
    run,               \* "first" or "second": the call of process_all on this processor
    first_run,         \* what the first call left behind, once the second has begun
    call               \* the last direct call of write_competitor_data by a caller

vars == <<config, files, pc, idx, collected, city_competitors, results,
          progress, wb, ws, markups_ws, data, row_map, markups_row_map, current_row,
          save_returned, run, first_run, call>>

-----------------------------------------------------------------------------
(* Bounds of the model *)

MaxCompetitors == 2
MaxCities == 2
MaxMarkupRows == 2

-----------------------------------------------------------------------------
(* Generic helpers on sequences and functions *)

Range(s) == {s[i] : i \in DOMAIN s}

SeqContains(s, x) == \E i \in DOMAIN s : s[i] = x

\* a dict assignment d[k] = v: the key is added or its value replaced
DictSet(d, k, v) == (k :> v) @@ d

EmptyDict == <<>>

\* injective sequences over S of length 1..n
DistinctSeqs(S, n) ==
    {s \in UNION {[1..k -> S] : k \in 1..n} :
        \A i, j \in DOMAIN s : i # j => s[i] # s[j]}

-----------------------------------------------------------------------------
(* Python values held by spreadsheet cells *)

None == [t |-> "none", v |-> 0]
IntV(n) == [t |-> "int", v |-> n]
FloatV(n) == [t |-> "float", v |-> n]     \* the float n.0
StrV(s) == [t |-> "str", v |-> s]
FormulaV(s) == [t |-> "formula", v |-> s] \* a str value starting with "="
Raised == [t |-> "error", v |-> 0]        \* no value: the read raised an exception

\* isinstance(value, (int, float))
IsNumber(val) == val.t \in {"int", "float"}

\* value != 0 for a number
NonZero(val) == val.v # 0

\* str(value) as an f-string renders it: 500 -> "500", 500.0 -> "500.0"
Fmt(val) ==
    CASE val.t = "int" -> ToString(val.v)
      [] val.t = "float" -> ToString(val.v) \o ".0"
      [] val.t = "none" -> "None"
      [] OTHER -> val.v

ColumnLetters ==
    <<"A", "B", "C", "D", "E", "F", "G", "H", "I", "J", "K", "L", "M",
      "N", "O", "P", "Q", "R", "S", "T", "U", "V", "W", "X", "Y", "Z">>

\* openpyxl.utils.get_column_letter for one-letter columns
get_column_letter(col_idx) == ColumnLetters[col_idx]

-----------------------------------------------------------------------------
(* OutputFileGenerator class attributes *)

FIELDS == <<"convert", "minimum_1", "minimum_2", "volume", "weight_100", "weight_3000">>

FieldSet == Range(FIELDS)

FIELD_NAMES ==
    [f \in FieldSet |->
        CASE f = "convert" -> "Envelope"
          [] f = "minimum_1" -> "Parcel up to 10 kg"
          [] f = "minimum_2" -> "1 piece up to 30 kg"
          [] f = "volume" -> "Cargo up to 0.5 m3"
          [] f = "weight_100" -> "Cargo up to 100 kg"
          [] f = "weight_3000" -> "Cargo over 3000 kg"]

\* FIELDS.index(field)
FieldIndex(field) == CHOOSE i \in DOMAIN FIELDS : FIELDS[i] = field

MarkupsSheetTitle == "Markups"

AverageKey == "__average__"
OwnKey == "__own__"

-----------------------------------------------------------------------------
(* models.py: the configuration records *)

\* ColumnMapping(): the default source columns
ColumnMapping ==
    [city |-> "A", convert |-> "D", minimum_1 |-> "E", minimum_2 |-> "F",
     volume |-> "O", weight_100 |-> "P", weight_3000 |-> "Q"]

\* RowOffsets(): row_2 .. row_7 are the offsets of the six fields, in FIELDS order
RowOffsets == [f \in FieldSet |-> 0]

\* Markups(**kw): every field 0.0 unless given
Markups(given) == [f \in FieldSet |-> IF f \in DOMAIN given THEN given[f] ELSE FloatV(0)]

MarkupRow(name, percent) == [name |-> name, percent |-> percent]

CompetitorConfig(name, file_path, enabled, markups, special_conditions, markup_rows) ==
    [name |-> name, file_path |-> file_path, enabled |-> enabled, bold |-> FALSE,
     source_columns |-> ColumnMapping, row_offsets |-> RowOffsets,
     fuzzy_match_threshold |-> 90, markups |-> markups,
     special_conditions |-> special_conditions, markup_rows |-> markup_rows]

\* getattr(competitor.markups, field, 0)
MarkupOf(competitor, field) ==
    IF field \in DOMAIN competitor.markups THEN competitor.markups[field] ELSE IntV(0)

\* AppConfig.get_city_names: [city] + city_aliases.get(city, [])
get_city_names(cfg, city) ==
    <<city>> \o (IF city \in DOMAIN cfg.city_aliases THEN cfg.city_aliases[city] ELSE <<>>)

\* the list comprehension cut short after its first enabled competitor
RECURSIVE EnabledFromFirst(_, _)
EnabledFromFirst(competitors, i) ==
    IF i > Len(competitors) THEN <<>>
    ELSE IF competitors[i].enabled THEN <<competitors[i]>>
    ELSE EnabledFromFirst(competitors, i + 1)

\* [c for c in config.competitors.values() if c.enabled]
RECURSIVE EnabledFrom(_, _)
EnabledFrom(competitors, i) ==
    IF i > Len(competitors) THEN <<>>
    ELSE (IF competitors[i].enabled THEN <<competitors[i]>> ELSE <<>>)
         \o EnabledFrom(competitors, i + 1)

EnabledCompetitors(cfg) == EnabledFrom(cfg.competitors, 1)

-----------------------------------------------------------------------------
(* Source sheets.  A sheet is the sequence of its rows; a row maps the     *)
(* column letters that hold something to their values.                     *)

\* sheet[f"{col}{row}"].value: Raised stands for the exception openpyxl raises
\* for a coordinate that is no cell (row < 1); a cell beyond the data is empty
SheetCell(sheet, col, row) ==
    IF row < 1 THEN Raised
    ELSE IF row > Len(sheet) THEN None
    ELSE IF col \in DOMAIN sheet[row] THEN sheet[row][col]
    ELSE None

\* Python truthiness of a cell value ("if not cell_value: continue")
Truthy(val) ==
    CASE val.t = "none" -> FALSE
      [] val.t \in {"int", "float"} -> val.v # 0
      [] OTHER -> val.v # ""

\* str.lower() on the texts of the model
Lower(s) ==
    CASE s = "Moscow" -> "moscow"
      [] s = "Moskva" -> "moskva"
      [] s = "Kazan" -> "kazan"
      [] s = "Vladivostok" -> "vladivostok"
      [] s = "City" -> "city"
      [] OTHER -> s

\* thefuzz.fuzz.WRatio on the (lower-cased) texts of the model
WRatio(a, b) ==
    CASE a = b -> 100
      [] {a, b} = {"moskva", "moskva city"} -> 90
      [] {a, b} = {"moscow", "moskva city"} -> 60
      [] {a, b} = {"moscow", "moskva"} -> 50
      [] OTHER -> 30

\* the inner loop of _find_city_row_data: some search name reaches the threshold
Matched(search_names, cell_str, threshold) ==
    \E i \in DOMAIN search_names : WRatio(Lower(search_names[i]), cell_str) >= threshold

\* the special conditions never consulted: every row passes
check_special_conditions_skipped(sheet, row_idx, city_name, competitor) == TRUE

\* ExcelProcessor._check_special_conditions
check_special_conditions(sheet, row_idx, city_name, competitor) ==
    IF ~competitor.special_conditions THEN TRUE
    ELSE IF competitor.name = "Energy" /\ city_name = "Vladivostok"
         THEN SheetCell(sheet, "B", row_idx) = StrV("Auto")
         ELSE TRUE

\* the field reads of _find_city_row_data at the selected row: the field map,
\* or kind "error" when one read raises
ReadRowData(sheet, row_idx, competitor) ==
    LET Read(f) == SheetCell(sheet, competitor.source_columns[f],
                             row_idx + competitor.row_offsets[f])
    IN IF \E f \in FieldSet : Read(f).t = "error"
         THEN [kind |-> "error", fields |-> <<>>]
         ELSE [kind |-> "data", fields |-> [f \in FieldSet |-> Read(f)]]

\* the row loop returning the last row that matches and passes the special
\* conditions instead of the first
RECURSIVE ScanRowsLast(_, _, _, _, _)
ScanRowsLast(cfg, sheet, city_name, competitor, row_idx) ==
    IF row_idx > Len(sheet) THEN [kind |-> "none", fields |-> <<>>]
    ELSE LET cell_value == SheetCell(sheet, competitor.source_columns.city, row_idx)
             later == ScanRowsLast(cfg, sheet, city_name, competitor, row_idx + 1)
         IN IF later.kind # "none" THEN later
            ELSE IF /\ Truthy(cell_value)
                    /\ Matched(get_city_names(cfg, city_name), Lower(Fmt(cell_value)),
                               competitor.fuzzy_match_threshold)
                    /\ check_special_conditions(sheet, row_idx, city_name, competitor)
              THEN ReadRowData(sheet, row_idx, competitor)
            ELSE later

\* ExcelProcessor._find_city_row_data, scanning from row_idx on: the field map of
\* the first row that matches and passes the special conditions (kind "data"),
\* kind "none" when no row does, kind "error" when a read raises
RECURSIVE ScanRows(_, _, _, _, _)
ScanRows(cfg, sheet, city_name, competitor, row_idx) ==
    IF row_idx > Len(sheet) THEN [kind |-> "none", fields |-> <<>>]
    ELSE LET cell_value == SheetCell(sheet, competitor.source_columns.city, row_idx)
         IN IF ~Truthy(cell_value)
              THEN ScanRows(cfg, sheet, city_name, competitor, row_idx + 1)
            ELSE IF ~Matched(get_city_names(cfg, city_name), Lower(Fmt(cell_value)),
                             competitor.fuzzy_match_threshold)
              THEN ScanRows(cfg, sheet, city_name, competitor, row_idx + 1)
            ELSE IF ~check_special_conditions(sheet, row_idx, city_name, competitor)
              THEN ScanRows(cfg, sheet, city_name, competitor, row_idx + 1)
            ELSE ReadRowData(sheet, row_idx, competitor)

find_city_row_data(cfg, sheet, city_name, competitor) ==
    ScanRows(cfg, sheet, city_name, competitor, 1)

\* the loop of collect_competitor_data over config.cities from position i, with the
\* cities found so far: an exception ends the loop and keeps what was found.
\* The result is the list of (city, field map) pairs in insertion order.
RECURSIVE CollectCities(_, _, _, _, _)
CollectCities(cfg, sheet, competitor, i, found) ==
    IF i > Len(cfg.cities) THEN found
    ELSE LET row_data == find_city_row_data(cfg, sheet, cfg.cities[i], competitor)
         IN IF row_data.kind = "error" THEN found
            ELSE IF row_data.kind = "none"
              THEN CollectCities(cfg, sheet, competitor, i + 1, found)
            ELSE CollectCities(cfg, sheet, competitor, i + 1,
                               Append(found, [city |-> cfg.cities[i],
                                              fields |-> row_data.fields]))

\* ExcelProcessor.collect_competitor_data: a missing path or file, or a file that
\* cannot be loaded, gives the empty dict
collect_competitor_data(cfg, disk, competitor) ==
    IF competitor.file_path = "" \/ competitor.file_path \notin DOMAIN disk THEN <<>>
    ELSE IF disk[competitor.file_path].kind # "sheet" THEN <<>>
    ELSE CollectCities(cfg, disk[competitor.file_path].rows, competitor, 1, <<>>)

\* a competitor whose file is missing or does not load lets its exception leave
\* process_all: the run is over
AfterCollectRaise(disk, competitor) ==
    IF \/ competitor.file_path \notin DOMAIN disk
       \/ disk[competitor.file_path].kind # "sheet"
      THEN "done" ELSE "notify_done"

\* a competitor whose file is missing or does not load ends step 1 without its
\* done notification
AfterCollectNoDone(disk, competitor) ==
    IF \/ competitor.file_path \notin DOMAIN disk
       \/ disk[competitor.file_path].kind # "sheet"
      THEN "presence" ELSE "notify_done"

\* where process_all goes on after collect_competitor_data: the function returns
\* on every path (the missing file by its early return, a failed load by its
\* except clause), so the done notification follows
AfterCollect(disk, competitor) == "notify_done"

\* dict lookups on a collected city_data list
HasCity(city_data, city) == \E i \in DOMAIN city_data : city_data[i].city = city
CityFields(city_data, city) ==
    city_data[CHOOSE i \in DOMAIN city_data : city_data[i].city = city].fields

-----------------------------------------------------------------------------
(* OutputFileGenerator: the sheet "Data" and its layout *)

\* a cell of an output sheet: its value and the style function applied to it
Cell(value, style) == [value |-> value, style |-> style]

\* ws.cell(row, column).value = value, then a _style_*_cell call on it
SetCell(sheet, row, col, value, style) == DictSet(sheet, <<row, col>>, Cell(value, style))

\* cell.value = value on a cell that may exist already (its style is kept)
SetValue(sheet, row, col, value) ==
    DictSet(sheet, <<row, col>>,
            Cell(value, IF <<row, col>> \in DOMAIN sheet THEN sheet[<<row, col>>].style
                        ELSE "none"))

\* the columns of an output row: the label column and one column per field
Columns == 1..(1 + Len(FIELDS))

\* the field of an output column: column 2 + fi holds FIELDS[fi] (0-based fi)
FieldOfColumn(col) == FIELDS[col - 1]

\* a row whose column 1 holds a label and whose field columns are styled and
\* left empty (the competitor, markup, city and own-company rows)
LabelledRow(sheet, row, label, style) ==
    [rc \in {<<row, col>> : col \in Columns} |->
        IF rc[2] = 1 THEN Cell(StrV(label), style) ELSE Cell(None, style)] @@ sheet

\* OutputFileGenerator._create_headers on a new sheet: the title in A1
create_headers(cfg) ==
    LET out_cfg == cfg.output_config
    IN SetCell(EmptyDict, 1, 1,
               StrV(IF out_cfg.subtitle # "" THEN out_cfg.title \o " - " \o out_cfg.subtitle
                    ELSE out_cfg.title),
               "title")

\* OutputFileGenerator._write_column_headers
write_column_headers(cfg, sheet, row) ==
    [rc \in {<<row, col>> : col \in Columns} |->
        IF rc[2] = 1 THEN Cell(StrV(cfg.output_config.title), "header")
        ELSE Cell(StrV(FIELD_NAMES[FieldOfColumn(rc[2])]), "header")] @@ sheet

\* the order of Python's str comparison on the city names of the model
Alphabet == <<"Kazan", "Moscow", "Vladivostok">>
StrLess(a, b) ==
    (CHOOSE i \in DOMAIN Alphabet : Alphabet[i] = a) <
    (CHOOSE i \in DOMAIN Alphabet : Alphabet[i] = b)

\* sorted(): x inserted into the sorted list s, after the elements not greater
RECURSIVE InsertSorted(_, _)
InsertSorted(s, x) ==
    IF s = <<>> THEN <<x>>
    ELSE IF StrLess(x, Head(s)) THEN <<x>> \o s
    ELSE <<Head(s)>> \o InsertSorted(Tail(s), x)

RECURSIVE SortedFrom(_, _)
SortedFrom(s, i) == IF i > Len(s) THEN <<>> ELSE InsertSorted(SortedFrom(s, i + 1), s[i])

\* the cities left in the insertion order of the configuration
SortedCitiesUnsorted(cfg) == cfg.cities

\* sorted(config.cities.keys())
SortedCities(cfg) == SortedFrom(cfg.cities, 1)

\* f"{competitor.name}|{mk_row.name}"
MkKey(competitor, mk_row) == competitor.name \o "|" \o mk_row.name

\* self.row_map[city][key] = row
RowMapSet(rows, city, key, row) == DictSet(rows, city, DictSet(rows[city], key, row))

\* The layout state threaded through _create_empty_rows: the sheet (ws), the row
\* map and current_row.
LayoutState(sheet, rows, next_row) ==
    [ws |-> sheet, row_map |-> rows, current_row |-> next_row]

\* "for mk_row in competitor.markup_rows", from entry k on
RECURSIVE MarkupRowsLayout(_, _, _, _)
MarkupRowsLayout(st, city, competitor, k) ==
    IF k > Len(competitor.markup_rows) THEN st
    ELSE LET mk_row == competitor.markup_rows[k]
         IN MarkupRowsLayout(
                LayoutState(LabelledRow(st.ws, st.current_row, mk_row.name, "markup"),
                            RowMapSet(st.row_map, city, MkKey(competitor, mk_row),
                                      st.current_row),
                            st.current_row + 1),
                city, competitor, k + 1)

\* one competitor with the rows of its markup rows laid above its own row
CompetitorLayoutMarkupsFirst(st, city, competitor) ==
    LET above == MarkupRowsLayout(st, city, competitor, 1)
    IN LayoutState(LabelledRow(above.ws, above.current_row, competitor.name,
                               IF competitor.bold THEN "data_bold" ELSE "data"),
                   RowMapSet(above.row_map, city, competitor.name, above.current_row),
                   above.current_row + 1)

\* one competitor of "for competitor in competitors_for_city": its row, then the
\* rows of its markup rows
CompetitorLayout(st, city, competitor) ==
    MarkupRowsLayout(
        LayoutState(LabelledRow(st.ws, st.current_row, competitor.name,
                                IF competitor.bold THEN "data_bold" ELSE "data"),
                    RowMapSet(st.row_map, city, competitor.name, st.current_row),
                    st.current_row + 1),
        city, competitor, 1)

RECURSIVE CompetitorsLayout(_, _, _, _)
CompetitorsLayout(st, city, competitors_for_city, i) ==
    IF i > Len(competitors_for_city) THEN st
    ELSE CompetitorsLayout(CompetitorLayout(st, city, competitors_for_city[i]),
                           city, competitors_for_city, i + 1)

\* the last row of the range taken one row too far
LastCompetitorRowNext(next_row) == next_row

\* "last_competitor_row = current_row - 1", after the competitor rows
LastCompetitorRow(next_row) == next_row - 1

\* the text of an average cell
AverageFormula(col_letter, first_row, last_row) ==
    "=AVERAGE(" \o col_letter \o ToString(first_row) \o ":" \o col_letter
    \o ToString(last_row) \o ")"

\* the value of a field cell of the average row with "if competitors_for_city"
\* left out
AverageCellValueAlways(has_competitors, col_letter, first_row, last_row) ==
    FormulaV(AverageFormula(col_letter, first_row, last_row))

\* the value of a field cell of the average row: a city without competitors gets
\* no formula
AverageCellValue(has_competitors, col_letter, first_row, last_row) ==
    IF has_competitors THEN FormulaV(AverageFormula(col_letter, first_row, last_row))
    ELSE None

\* the average row: its label and one cell per field
AverageRow(sheet, avg_row, has_competitors, first_row, last_row) ==
    [rc \in {<<avg_row, col>> : col \in Columns} |->
        IF rc[2] = 1 THEN Cell(StrV("Average"), "average")
        ELSE Cell(AverageCellValue(has_competitors, get_column_letter(rc[2]),
                                   first_row, last_row), "average")] @@ sheet

\* the own-company row laid whenever own.enabled, outside the include_average
\* branch
AverageAndOwnUnnested(cfg, st, city, has_competitors, first_row, last_row) ==
    LET withAvg ==
            IF ~cfg.output_config.include_average THEN st
            ELSE LayoutState(AverageRow(st.ws, st.current_row, has_competitors,
                                        first_row, last_row),
                             RowMapSet(st.row_map, city, AverageKey, st.current_row),
                             st.current_row + 1)
    IN IF ~cfg.own_company.enabled THEN withAvg
       ELSE LayoutState(LabelledRow(withAvg.ws, withAvg.current_row,
                                    cfg.own_company.name, "own"),
                        RowMapSet(withAvg.row_map, city, OwnKey, withAvg.current_row),
                        withAvg.current_row + 1)

\* "if self.config.output_config.include_average": the average row, then the
\* own-company row when own.enabled
AverageAndOwn(cfg, st, city, has_competitors, first_row, last_row) ==
    IF ~cfg.output_config.include_average THEN st
    ELSE LET avg_row == st.current_row
             withAvg ==
                 LayoutState(AverageRow(st.ws, avg_row, has_competitors, first_row, last_row),
                             RowMapSet(st.row_map, city, AverageKey, avg_row),
                             avg_row + 1)
         IN IF ~cfg.own_company.enabled THEN withAvg
            ELSE LayoutState(LabelledRow(withAvg.ws, withAvg.current_row,
                                         cfg.own_company.name, "own"),
                             RowMapSet(withAvg.row_map, city, OwnKey, withAvg.current_row),
                             withAvg.current_row + 1)

\* the competitors of a city with the presence map not consulted: every enabled
\* competitor (the branch _create_empty_rows takes when it is given no map)
CompetitorsForCityAll(cfg, presence, city) == EnabledCompetitors(cfg)

\* "competitors_for_city = city_competitors.get(city, [])": process_all always
\* passes the presence map
CompetitorsForCity(cfg, presence, city) ==
    IF city \in DOMAIN presence THEN presence[city] ELSE <<>>



\* one pass of the city loop with the separator row added after every city, the
\* last one included
CityLayoutSeparatorAlways(cfg, st, presence, sorted_cities, city_idx) ==
    LET city == sorted_cities[city_idx]
        competitors_for_city == CompetitorsForCity(cfg, presence, city)
        first_competitor_row == st.current_row + 2
        afterCity ==
            LayoutState(LabelledRow(write_column_headers(cfg, st.ws, st.current_row),
                                    st.current_row + 1, city, "city"),
                        DictSet(st.row_map, city, EmptyDict),
                        first_competitor_row)
        afterCompetitors == CompetitorsLayout(afterCity, city, competitors_for_city, 1)
        afterAverage == AverageAndOwn(cfg, afterCompetitors, city,
                                      competitors_for_city # <<>>,
                                      first_competitor_row,
                                      LastCompetitorRow(afterCompetitors.current_row))
    IN LayoutState(afterAverage.ws, afterAverage.row_map, afterAverage.current_row + 1)

\* one pass of "for city_idx, city in enumerate(sorted_cities)" (city_idx from 1)
CityLayout(cfg, st, presence, sorted_cities, city_idx) ==
    LET city == sorted_cities[city_idx]
        competitors_for_city == CompetitorsForCity(cfg, presence, city)
        header_row == st.current_row
        city_row == header_row + 1
        first_competitor_row == city_row + 1
        afterCity ==
            LayoutState(LabelledRow(write_column_headers(cfg, st.ws, header_row),
                                    city_row, city, "city"),
                        DictSet(st.row_map, city, EmptyDict),
                        first_competitor_row)
        afterCompetitors == CompetitorsLayout(afterCity, city, competitors_for_city, 1)
        last_competitor_row == LastCompetitorRow(afterCompetitors.current_row)
        afterAverage == AverageAndOwn(cfg, afterCompetitors, city,
                                      competitors_for_city # <<>>,
                                      first_competitor_row, last_competitor_row)
    IN \* the blank separator row between cities
       IF city_idx < Len(sorted_cities)
         THEN LayoutState(afterAverage.ws, afterAverage.row_map,
                          afterAverage.current_row + 1)
         ELSE afterAverage

\* the row the first city block starts at (row 1 is the title)
FirstDataRow == 2

-----------------------------------------------------------------------------
(* OutputFileGenerator.write_competitor_data *)

\* the value of the competitor's cell with no markup applied: the value itself
DataCellValueLiteral(mk_row_map, competitor, field, value, col_letter) == value

\* the value of the competitor's cell with "markup_percent != 0" left out: a
\* formula for every number of a competitor that has a markups row
DataCellValueAnyMarkup(mk_row_map, competitor, field, value, col_letter) ==
    IF value.t # "none" /\ IsNumber(value) /\ competitor.name \in DOMAIN mk_row_map
      THEN FormulaV("=" \o Fmt(value) \o "*(1+" \o MarkupsSheetTitle \o "!"
                    \o col_letter \o ToString(mk_row_map[competitor.name]) \o "/100)")
      ELSE value

\* the value of the competitor's cell: a formula over the markups sheet for a number
\* with a non-zero markup and a markups row, the value itself otherwise
DataCellValue(mk_row_map, competitor, field, value, col_letter) ==
    IF value.t # "none" /\ IsNumber(value)
      THEN LET markup_percent == MarkupOf(competitor, field)
           IN IF NonZero(markup_percent) /\ competitor.name \in DOMAIN mk_row_map
                THEN FormulaV("=" \o Fmt(value) \o "*(1+" \o MarkupsSheetTitle \o "!"
                              \o col_letter \o ToString(mk_row_map[competitor.name])
                              \o "/100)")
                ELSE value
      ELSE value

\* the value of a markup row's cell: a formula over the competitor's own cell
MarkupCellValue(mk_row, col_letter, row) ==
    IF NonZero(mk_row.percent)
      THEN FormulaV("=" \o col_letter \o ToString(row) \o "*(1+" \o Fmt(mk_row.percent)
                    \o "/100)")
      ELSE FormulaV("=" \o col_letter \o ToString(row))

\* "for mk_row in competitor.markup_rows" of write_competitor_data, from entry k on
RECURSIVE WriteMarkupCells(_, _, _, _, _, _)
WriteMarkupCells(sheet, city_rows, competitor, col_idx, row, k) ==
    IF k > Len(competitor.markup_rows) THEN sheet
    ELSE LET mk_row == competitor.markup_rows[k]
             mk_key == MkKey(competitor, mk_row)
         IN IF mk_key \notin DOMAIN city_rows
              THEN WriteMarkupCells(sheet, city_rows, competitor, col_idx, row, k + 1)
              ELSE WriteMarkupCells(
                       SetValue(sheet, city_rows[mk_key], col_idx,
                                MarkupCellValue(mk_row, get_column_letter(col_idx), row)),
                       city_rows, competitor, col_idx, row, k + 1)

\* the update with the competitor's entry replaced by the one field instead of
\* extended by it
UpdateDataReplacing(cache, competitor, city, field, value) ==
    DictSet(cache, city,
            DictSet(cache[city], competitor.name, DictSet(EmptyDict, field, value)))

\* the "update in memory" lines: self.data[city][competitor.name][field] = value
UpdateData(cache, competitor, city, field, value) ==
    LET old == IF competitor.name \in DOMAIN cache[city]
                 THEN cache[city][competitor.name] ELSE EmptyDict
    IN DictSet(cache, city,
               DictSet(cache[city], competitor.name, DictSet(old, field, value)))

\* write_competitor_data without the return for a competitor that has no row in
\* the city: no cell is written but the cache is updated
write_competitor_data_cached(g, competitor, city, field, value) ==
    IF city \notin DOMAIN g.row_map THEN [ws |-> g.ws, data |-> g.data]
    ELSE IF ~g.wb THEN [ws |-> g.ws, data |-> g.data]
    ELSE IF field \notin FieldSet THEN [ws |-> g.ws, data |-> g.data]
    ELSE IF competitor.name \notin DOMAIN g.row_map[city]
      THEN [ws |-> g.ws, data |-> UpdateData(g.data, competitor, city, field, value)]
    ELSE LET col_idx == 1 + FieldIndex(field)
             row == g.row_map[city][competitor.name]
             withValue == SetValue(g.ws, row, col_idx,
                                   DataCellValue(g.markups_row_map, competitor, field,
                                                 value, get_column_letter(col_idx)))
         IN [ws |-> WriteMarkupCells(withValue, g.row_map[city], competitor, col_idx, row, 1),
             data |-> UpdateData(g.data, competitor, city, field, value)]

\* OutputFileGenerator.write_competitor_data on the generator state g
\* (wb, ws, data, row_map, markups_row_map): the new ws and data
write_competitor_data(g, competitor, city, field, value) ==
    IF city \notin DOMAIN g.row_map THEN [ws |-> g.ws, data |-> g.data]
    ELSE IF ~g.wb THEN [ws |-> g.ws, data |-> g.data]
    ELSE IF competitor.name \notin DOMAIN g.row_map[city] THEN [ws |-> g.ws, data |-> g.data]
    ELSE IF field \notin FieldSet THEN [ws |-> g.ws, data |-> g.data]
    ELSE LET col_idx == 1 + FieldIndex(field)
             col_letter == get_column_letter(col_idx)
             row == g.row_map[city][competitor.name]
             withValue == SetValue(g.ws, row, col_idx,
                                   DataCellValue(g.markups_row_map, competitor, field,
                                                 value, col_letter))
         IN [ws |-> WriteMarkupCells(withValue, g.row_map[city], competitor, col_idx, row, 1),
             data |-> UpdateData(g.data, competitor, city, field, value)]

-----------------------------------------------------------------------------
(* OutputFileGenerator.add_markups_sheet *)

\* the first row of the markups sheet that holds a competitor
MarkupsFirstRow == 4

\* the row of the markups sheet that holds the column headers
MarkupsHeaderRow == 3

\* the title and the column headers of a new sheet "Markups"
MarkupsSheetHead ==
    [rc \in {<<MarkupsHeaderRow, col>> : col \in Columns} |->
        IF rc[2] = 1 THEN Cell(StrV("Competitor"), "header")
        ELSE Cell(StrV(FIELD_NAMES[FieldOfColumn(rc[2])]), "header")]
    @@ SetCell(EmptyDict, 1, 1, StrV("Markups on competitor prices (%)"), "title")

\* the cells of one competitor's row written one row below row_idx
MarkupsRowCellsBelow(sheet, row_idx, competitor) ==
    [rc \in {<<row_idx + 1, col>> : col \in Columns} |->
        IF rc[2] = 1 THEN Cell(StrV(competitor.name), "city")
        ELSE Cell(MarkupOf(competitor, FieldOfColumn(rc[2])), "data")] @@ sheet

\* the cells of one competitor's row: its name, then its markup per field as a number
MarkupsRowCells(sheet, row_idx, competitor) ==
    [rc \in {<<row_idx, col>> : col \in Columns} |->
        IF rc[2] = 1 THEN Cell(StrV(competitor.name), "city")
        ELSE Cell(MarkupOf(competitor, FieldOfColumn(rc[2])), "data")] @@ sheet

\* the rows counted from one row too far
MarkupsRowOfNext(i) == MarkupsFirstRow + i

\* enumerate(enabled_competitors, 4): the row of the i-th enabled competitor
MarkupsRowOf(i) == MarkupsFirstRow + i - 1

\* "for row_idx, competitor in enumerate(enabled_competitors, 4)" from the i-th
\* competitor on: markups_row_map[competitor.name] = row_idx, then the row's cells
RECURSIVE MarkupsRows(_, _, _, _)
MarkupsRows(sheet, mk_row_map, enabled, i) ==
    IF i > Len(enabled) THEN [ws |-> sheet, markups_row_map |-> mk_row_map]
    ELSE MarkupsRows(MarkupsRowCells(sheet, MarkupsRowOf(i), enabled[i]),
                     DictSet(mk_row_map, enabled[i].name, MarkupsRowOf(i)),
                     enabled, i + 1)

\* add_markups_sheet building the sheet only while markups_row_map is empty
add_markups_sheet_once(cfg, sheet, mk_row_map) ==
    IF ~cfg.output_config.markups_sheet \/ mk_row_map # EmptyDict
      THEN [ws |-> sheet, markups_row_map |-> mk_row_map]
      ELSE MarkupsRows(MarkupsSheetHead, EmptyDict, EnabledCompetitors(cfg), 1)

\* OutputFileGenerator.add_markups_sheet: nothing without the markups_sheet option
\* (markups_row_map keeps what it had), else a new sheet and a new markups_row_map
add_markups_sheet(cfg, sheet, mk_row_map) ==
    IF ~cfg.output_config.markups_sheet
      THEN [ws |-> sheet, markups_row_map |-> mk_row_map]
      ELSE MarkupsRows(MarkupsSheetHead, EmptyDict, EnabledCompetitors(cfg), 1)

-----------------------------------------------------------------------------
(* ExcelProcessor.process_all: its pure parts *)

\* collected.get(competitor.name, {})
CollectedOf(coll, competitor) ==
    IF competitor.name \in DOMAIN coll THEN coll[competitor.name] ELSE <<>>

\* "city_data and any(v is not None for v in city_data.values())"
HasValue(fields) == \E f \in DOMAIN fields : fields[f].t # "none"

\* step 2's test with the values tested for truth: "any(city_data.values())"
IsPresentTruthy(coll, competitor, city) ==
    LET city_data == CollectedOf(coll, competitor)
    IN /\ HasCity(city_data, city)
       /\ \E f \in DOMAIN CityFields(city_data, city) :
              Truthy(CityFields(city_data, city)[f])

\* step 2's test for one competitor and city
IsPresent(coll, competitor, city) ==
    LET city_data == CollectedOf(coll, competitor)
    IN /\ HasCity(city_data, city)
       /\ DOMAIN CityFields(city_data, city) # {}
       /\ HasValue(CityFields(city_data, city))

\* step 2, the inner loop: the enabled competitors from position i on that are
\* present for the city, order kept
RECURSIVE PresentFrom(_, _, _, _)
PresentFrom(coll, enabled, city, i) ==
    IF i > Len(enabled) THEN <<>>
    ELSE (IF IsPresent(coll, enabled[i], city) THEN <<enabled[i]>> ELSE <<>>)
         \o PresentFrom(coll, enabled, city, i + 1)

\* step 2: city_competitors
BuildPresence(cfg, coll) ==
    [city \in Range(cfg.cities) |-> PresentFrom(coll, EnabledCompetitors(cfg), city, 1)]

\* step 4, the innermost loop "for field, value in city_data.items()": the calls
\* write_competitor_data(competitor, city, field, value) from the fi-th field on, in
\* the order the field map was filled; g is the generator state
RECURSIVE WriteFields(_, _, _, _, _)
WriteFields(g, competitor, city, fields, fi) ==
    IF fi > Len(FIELDS) THEN [ws |-> g.ws, data |-> g.data]
    ELSE LET written == write_competitor_data(g, competitor, city, FIELDS[fi],
                                              fields[FIELDS[fi]])
         IN WriteFields([g EXCEPT !.ws = written.ws, !.data = written.data],
                        competitor, city, fields, fi + 1)

\* step 4: "if competitor not in city_competitors.get(city, []): continue"
Listed(presence, competitor, city) ==
    SeqContains(IF city \in DOMAIN presence THEN presence[city] ELSE <<>>, competitor)

\* step 4 for one collected item of a competitor: skipped unless the city's
\* presence list has the competitor
WriteCityData(g, presence, competitor, item) ==
    IF Listed(presence, competitor, item.city)
      THEN WriteFields(g, competitor, item.city, item.fields, 1)
      ELSE [ws |-> g.ws, data |-> g.data]

\* step 4 for one competitor: "for city, city_data in collected.get(name, {}).items()"
\* from the i-th collected item on
RECURSIVE WriteItems(_, _, _, _, _)
WriteItems(g, presence, competitor, items, i) ==
    IF i > Len(items) THEN [ws |-> g.ws, data |-> g.data]
    ELSE LET written == WriteCityData(g, presence, competitor, items[i])
         IN WriteItems([g EXCEPT !.ws = written.ws, !.data = written.data],
                       presence, competitor, items, i + 1)

\* the result with only the collected cities that hold a value counted
ResultOfUsable(coll, competitor) ==
    [success |-> TRUE, competitor |-> competitor.name,
     processed_cities |->
         Cardinality({i \in DOMAIN CollectedOf(coll, competitor) :
                         HasValue(CollectedOf(coll, competitor)[i].fields)}),
     errors |-> <<>>]

\* the result step 4 appends for a competitor
ResultOf(coll, competitor) ==
    [success |-> TRUE, competitor |-> competitor.name,
     processed_cities |-> Len(CollectedOf(coll, competitor)), errors |-> <<>>]

\* step 3 with the add_markups_sheet() call left out: the cells are written next
AfterGenerateWrite == "write"

\* what step 3 does after a successful generate(): the markups sheet comes before
\* the cells are written
AfterGenerate == "markups"

-----------------------------------------------------------------------------
(* The configurations and source files of the model *)

OutputPath == "out.xlsx"

EnergySheet ==
    << [A |-> StrV("City"), D |-> StrV("Envelope")],
       [A |-> StrV("Moscow"), B |-> StrV("Auto"), D |-> IntV(500), E |-> IntV(0),
        F |-> StrV("on request"), P |-> FloatV(1200), Q |-> IntV(9000)],
       [A |-> StrV("Kazan")],
       [A |-> StrV("Vladivostok"), B |-> StrV("Manual"), D |-> IntV(700)],
       [A |-> StrV("Vladivostok"), B |-> StrV("Auto"), F |-> StrV("by agreement")] >>

PekSheet ==
    << [A |-> StrV("moskva city"), E |-> IntV(0)],
       [D |-> IntV(111)],
       [A |-> StrV("Kazan"), D |-> IntV(300), F |-> StrV("x"), O |-> IntV(40)],
       [A |-> StrV("Moscow"), D |-> IntV(450)],
       [A |-> StrV("Vladivostok"), B |-> StrV("Manual"), Q |-> IntV(8000)] >>

\* a price list of Energy whose only Vladivostok row is marked "Manual"
EnergyManualSheet ==
    << [A |-> StrV("Vladivostok"), B |-> StrV("Manual"), D |-> IntV(700)],
       [A |-> StrV("Moscow"), B |-> StrV("Auto"), D |-> IntV(500)] >>

\* the files on disk: three price lists and a file load_workbook cannot open
Disk ==
    [p \in {"energy.xlsx", "energy_manual.xlsx", "pek.xlsx", "dl_broken.xlsx"} |->
        CASE p = "energy.xlsx" -> [kind |-> "sheet", rows |-> EnergySheet]
          [] p = "energy_manual.xlsx" -> [kind |-> "sheet", rows |-> EnergyManualSheet]
          [] p = "dl_broken.xlsx" -> [kind |-> "corrupt", rows |-> <<>>]
          [] OTHER -> [kind |-> "sheet", rows |-> PekSheet]]

\* markup-row lists as the editor builds them: every added row starts as "+10%"
\* with 10.0 and may be edited, so labels may repeat
\* the percent of the k-th row: 10.0 as added, 0.0 after an edit, then integers
\* as a hand-written configuration file gives them
PercentOf(k) == IF k = 1 THEN FloatV(10) ELSE IF k = 2 THEN FloatV(0) ELSE IntV(5 * k)
DistinctLabels(n) ==
    [k \in 1..n |-> MarkupRow(IF k = 1 THEN "+10%" ELSE "row" \o ToString(k), PercentOf(k))]
RepeatedLabels(n) == [k \in 1..n |-> MarkupRow("+10%", PercentOf(k))]

EnergyMarkups ==
    Markups([convert |-> FloatV(10), minimum_2 |-> FloatV(15), weight_3000 |-> IntV(5)])

\* Energy: markups on three fields, the special condition set, and either the
\* full price list with distinct markup-row labels or the "Manual" price list
\* with repeated labels;
\* PEK: one markup, no markup rows, no condition set;
\* DL: either disabled with a readable file, or enabled with its file missing
\* or not a workbook
CompetitorPool ==
    {CompetitorConfig("Energy", "energy.xlsx", TRUE, EnergyMarkups, TRUE,
                      DistinctLabels(MaxMarkupRows)),
     CompetitorConfig("Energy", "energy_manual.xlsx", TRUE, EnergyMarkups, TRUE,
                      RepeatedLabels(MaxMarkupRows))}
    \cup
    {CompetitorConfig("PEK", "pek.xlsx", TRUE, Markups([volume |-> IntV(5)]), FALSE, <<>>),
     CompetitorConfig("DL", "pek.xlsx", FALSE, Markups([convert |-> FloatV(10)]), FALSE,
                      <<MarkupRow("+5%", IntV(5))>>),
     CompetitorConfig("DL", "dl.xlsx", TRUE, Markups([convert |-> FloatV(10)]), FALSE,
                      <<MarkupRow("+5%", IntV(5))>>),
     CompetitorConfig("DL", "dl_broken.xlsx", TRUE, Markups([convert |-> FloatV(10)]), FALSE,
                      <<MarkupRow("+5%", IntV(5))>>)}

CityPool == {"Kazan", "Moscow", "Vladivostok"}

\* config.competitors is a dict keyed by name: the names of a configuration differ
CompetitorLists ==
    {s \in DistinctSeqs(CompetitorPool, MaxCompetitors) :
        \A i, j \in DOMAIN s : i # j => s[i].name # s[j].name}

\* config.cities is a dict keyed by city: MaxCities different cities of the
\* pool, in any insertion order
CityLists == {s \in DistinctSeqs(CityPool, MaxCities) : Len(s) = MaxCities}

\* the options that shape the output; without an output path generate() fails
\* after the layout, with one setting of the options that only matter later
OutputOptions ==
    [output_file : {OutputPath},
     output_config : [title : {"Delivery cost"}, subtitle : {""},
                      include_average : BOOLEAN, markups_sheet : BOOLEAN],
     own_company : [name : {"Viteka"}, enabled : BOOLEAN]]
    \cup
    [output_file : {""},
     output_config : [title : {"Delivery cost"}, subtitle : {""},
                      include_average : {TRUE}, markups_sheet : {TRUE}],
     own_company : [name : {"Viteka"}, enabled : {TRUE}]]

Configs ==
    {[output_file |-> o.output_file,
      competitors |-> competitors,
      cities |-> cities,
      city_aliases |-> [c \in {"Moscow"} |-> <<"Moskva">>],
      output_config |-> o.output_config,
      own_company |-> o.own_company] :
        o \in OutputOptions, competitors \in CompetitorLists, cities \in CityLists}

-----------------------------------------------------------------------------
(* The state machine: one run of process_all on a new ExcelProcessor *)

\* no call of process_all has ended yet
NoRun == [completed |-> FALSE]

\* no caller has called write_competitor_data itself
NoCall == [n |-> 0]

Init ==
    /\ config \in Configs
    /\ files = EmptyDict
    /\ pc = "start"
    /\ idx = 0
    /\ collected = EmptyDict
    /\ city_competitors = EmptyDict
    /\ results = <<>>
    /\ progress = <<>>
    /\ wb = FALSE
    /\ ws = EmptyDict
    /\ markups_ws = EmptyDict
    /\ data = EmptyDict
    /\ row_map = EmptyDict
    /\ markups_row_map = EmptyDict
    /\ current_row = 0
    /\ save_returned = "pending"
    /\ run = "first"
    /\ first_run = NoRun
    /\ call = NoCall

enabled_competitors == EnabledCompetitors(config)

generator == [wb |-> wb, ws |-> ws, data |-> data, row_map |-> row_map,
              markups_row_map |-> markups_row_map]

\* process_all is called: results = [], collected = {}
Start ==
    /\ pc = "start"
    /\ pc' = IF enabled_competitors = <<>> THEN "presence" ELSE "notify_start"
    /\ idx' = 1
    /\ results' = <<>>
    /\ collected' = EmptyDict
    /\ UNCHANGED <<config, call, run, first_run, save_returned, files, city_competitors, progress, wb, ws, markups_ws,
                   data, row_map, markups_row_map, current_row>>

\* step 1: progress_callback(competitor.name, False)
NotifyStart ==
    /\ pc = "notify_start"
    /\ progress' = Append(progress, <<enabled_competitors[idx].name, FALSE>>)
    /\ pc' = "collect"
    /\ UNCHANGED <<config, call, run, first_run, save_returned, files, idx, collected, city_competitors, results, wb, ws,
                   markups_ws, data, row_map, markups_row_map, current_row>>

\* step 1: collected[competitor.name] = self.collect_competitor_data(competitor)
Collect ==
    /\ pc = "collect"
    /\ LET competitor == enabled_competitors[idx]
       IN /\ collected' = DictSet(collected, competitor.name,
                                  collect_competitor_data(config, Disk, competitor))
          /\ pc' = AfterCollect(Disk, competitor)
    /\ UNCHANGED <<config, call, run, first_run, save_returned, files, idx, city_competitors, results, progress, wb, ws,
                   markups_ws, data, row_map, markups_row_map, current_row>>

\* step 1: progress_callback(competitor.name, True), then the next competitor
NotifyDone ==
    /\ pc = "notify_done"
    /\ progress' = Append(progress, <<enabled_competitors[idx].name, TRUE>>)
    /\ IF idx < Len(enabled_competitors)
         THEN pc' = "notify_start" /\ idx' = idx + 1
         ELSE pc' = "presence" /\ idx' = idx
    /\ UNCHANGED <<config, call, run, first_run, save_returned, files, collected, city_competitors, results, wb, ws,
                   markups_ws, data, row_map, markups_row_map, current_row>>

\* step 2: the presence map
Presence ==
    /\ pc = "presence"
    /\ city_competitors' = BuildPresence(config, collected)
    /\ pc' = "generate"
    /\ UNCHANGED <<config, call, run, first_run, save_returned, files, idx, collected, results, progress, wb, ws,
                   markups_ws, data, row_map, markups_row_map, current_row>>

\* generate() with the test of the output path left out
HasOutputPathUnchecked(cfg) == TRUE

\* generate(): "if not self.config.output_file: return False" does not fire
HasOutputPath(cfg) == cfg.output_file # ""

\* what wb.save writes
Artifact(sheet, markups_sheet) == [kind |-> "output", ws |-> sheet, markups |-> markups_sheet]

\* step 3: generator.generate(city_competitors) begins: a new workbook, the data
\* cache with an empty dict per city, the title, and the start of
\* _create_empty_rows (row_map = {}, current_row = 2)
GenerateBegin ==
    /\ pc = "generate"
    /\ wb' = TRUE
    /\ ws' = create_headers(config)
    /\ markups_ws' = EmptyDict
    /\ data' = [city \in Range(config.cities) |-> EmptyDict]
    /\ row_map' = EmptyDict
    /\ current_row' = FirstDataRow
    /\ idx' = 1
    /\ pc' = IF config.cities = <<>> THEN "generate_save" ELSE "layout"
    /\ UNCHANGED <<config, call, run, first_run, save_returned, files, collected, city_competitors, results, progress,
                   markups_row_map>>

\* _create_empty_rows: one pass of its loop over the sorted cities
LayoutCity ==
    /\ pc = "layout"
    /\ LET sorted_cities == SortedCities(config)
           st == CityLayout(config, LayoutState(ws, row_map, current_row),
                            city_competitors, sorted_cities, idx)
       IN /\ ws' = st.ws
          /\ row_map' = st.row_map
          /\ current_row' = st.current_row
          /\ IF idx < Len(sorted_cities)
               THEN pc' = "layout" /\ idx' = idx + 1
               ELSE pc' = "generate_save" /\ idx' = idx
    /\ UNCHANGED <<config, call, run, first_run, save_returned, files, collected, city_competitors, results, progress, wb,
                   markups_ws, data, markups_row_map>>

\* the end of generate(): it fails without an output path or when the save raises,
\* and process_all then returns the results it has; else the laid-out workbook is
\* saved
GenerateSave ==
    /\ pc = "generate_save"
    /\ \/ /\ ~HasOutputPath(config)
          /\ pc' = "done"
          /\ files' = files
       \/ /\ HasOutputPath(config)
          /\ \E save_ok \in BOOLEAN :
                IF save_ok
                  THEN /\ files' = DictSet(files, config.output_file,
                                           Artifact(ws, markups_ws))
                       /\ pc' = AfterGenerate
                  ELSE /\ files' = files
                       /\ pc' = "done"
    /\ idx' = 1
    /\ UNCHANGED <<config, call, run, first_run, save_returned, collected, city_competitors, results, progress, wb,
                   ws, markups_ws, data, row_map, markups_row_map, current_row>>

\* step 3: self.generator.add_markups_sheet()
AddMarkupsSheet ==
    /\ pc = "markups"
    /\ LET added == add_markups_sheet(config, markups_ws, markups_row_map)
       IN /\ markups_ws' = added.ws
          /\ markups_row_map' = added.markups_row_map
    /\ pc' = "write"
    /\ UNCHANGED <<config, call, run, first_run, save_returned, files, idx, collected, city_competitors, results, progress, wb,
                   ws, data, row_map, current_row>>

\* step 4: one pass of "for competitor in enabled_competitors": the cells of its
\* collected cities are written, then its result is appended
WriteCompetitor ==
    /\ pc = "write"
    /\ idx <= Len(enabled_competitors)
    /\ LET competitor == enabled_competitors[idx]
           written == WriteItems(generator, city_competitors, competitor,
                                 CollectedOf(collected, competitor), 1)
       IN /\ ws' = written.ws
          /\ data' = written.data
          /\ results' = Append(results, ResultOf(collected, competitor))
    /\ idx' = idx + 1
    /\ UNCHANGED <<config, call, run, first_run, save_returned, files, pc, collected, city_competitors, progress, wb, markups_ws,
                   row_map, markups_row_map, current_row>>

\* step 4 is over
WriteEnd ==
    /\ pc = "write"
    /\ idx > Len(enabled_competitors)
    /\ pc' = "save"
    /\ UNCHANGED <<config, call, run, first_run, save_returned, files, idx, collected, city_competitors, results, progress, wb,
                   ws, markups_ws, data, row_map, markups_row_map, current_row>>

\* step 5: generator.save(); process_all returns results whatever save returns
Save ==
    /\ pc = "save"
    /\ \E save_ok \in BOOLEAN :
          /\ files' = IF wb /\ save_ok
                        THEN DictSet(files, config.output_file, Artifact(ws, markups_ws))
                        ELSE files
          /\ save_returned' = IF wb /\ save_ok THEN "true" ELSE "false"
    /\ pc' = "done"
    /\ UNCHANGED <<config, call, run, first_run, idx, collected, city_competitors, results, progress, wb,
                   ws, markups_ws, data, row_map, markups_row_map, current_row>>

Next ==
    \/ Start
    \/ NotifyStart
    \/ Collect
    \/ NotifyDone
    \/ Presence
    \/ GenerateBegin
    \/ LayoutCity
    \/ GenerateSave
    \/ AddMarkupsSheet
    \/ WriteCompetitor
    \/ WriteEnd
    \/ Save

Spec == Init /\ [][Next]_vars

-----------------------------------------------------------------------------
(* Two calls of process_all on the same ExcelProcessor.  The processor and its *)
(* OutputFileGenerator keep their attributes between the calls, and the         *)
(* AppConfig object they share with the caller may be changed in between.       *)

\* the configurations of the two calls: PEK first, every enabled competitor with
\* a price list that opens, the cities in sorted order with Kazan, average and
\* own-company rows on
RerunConfigs ==
    {c \in Configs :
        /\ c.competitors[1].name = "PEK"
        /\ \A i \in DOMAIN c.competitors :
               c.competitors[i].enabled =>
                   /\ c.competitors[i].file_path \in DOMAIN Disk
                   /\ Disk[c.competitors[i].file_path].kind = "sheet"
        /\ c.cities[1] = "Kazan"
        /\ c.cities = SortedCities(c)
        /\ c.output_config.include_average
        /\ c.own_company.enabled}

InitRerun ==
    /\ Init
    /\ config \in RerunConfigs

\* process_all has returned and is called again, after the caller has set the
\* configuration: the locals of process_all are new, the attributes of the
\* generator and the files on disk are as the first call left them
Rerun ==
    /\ pc = "done"
    /\ run = "first"
    /\ run' = "second"
    /\ first_run' = [completed |-> save_returned # "pending", config |-> config,
                     row_map |-> row_map, markups_row_map |-> markups_row_map,
                     ws |-> ws, markups_ws |-> markups_ws]
    /\ config' \in RerunConfigs
    /\ pc' = "start"
    /\ idx' = 0
    /\ collected' = EmptyDict
    /\ city_competitors' = EmptyDict
    /\ results' = <<>>
    /\ progress' = <<>>
    /\ save_returned' = "pending"
    /\ UNCHANGED <<files, wb, ws, markups_ws, data, row_map, markups_row_map, current_row,
                   call>>

NextRerun ==
    \/ Next
    \/ Rerun

SpecRerun == InitRerun /\ [][NextRerun]_vars

-----------------------------------------------------------------------------
(* Properties *)

\* the stages of process_all that follow step 2
AfterPresence == {"generate", "layout", "generate_save", "markups", "write", "save", "done"}

\* the position of a competitor in config.competitors
PositionOf(competitor) ==
    CHOOSE k \in DOMAIN config.competitors : config.competitors[k] = competitor

\* the field map collected for (competitor, city): the empty map when there is none
FieldMap(competitor, city) ==
    IF competitor.name \notin DOMAIN collected THEN EmptyDict
    ELSE LET found == {i \in DOMAIN collected[competitor.name] :
                          collected[competitor.name][i].city = city}
         IN IF found = {} THEN EmptyDict
            ELSE collected[competitor.name][CHOOSE i \in found : TRUE].fields

\* the field map has a field whose value is not absent
Usable(competitor, city) ==
    \E f \in DOMAIN FieldMap(competitor, city) : FieldMap(competitor, city)[f].t # "none"

\* C1: once step 2 has run, the presence list of every configured city holds
\* exactly the enabled competitors whose collected field map for the city has a
\* value that is not None (0 and text count), in configured order.
C1_PresenceIndex ==
    pc \in AfterPresence =>
        /\ DOMAIN city_competitors = Range(config.cities)
        /\ \A city \in Range(config.cities) :
              LET present == city_competitors[city]
              IN /\ \A i \in DOMAIN present :
                        /\ SeqContains(config.competitors, present[i])
                        /\ present[i].enabled
                        /\ Usable(present[i], city)
                 /\ \A k \in DOMAIN config.competitors :
                        (config.competitors[k].enabled /\ Usable(config.competitors[k], city))
                            => SeqContains(present, config.competitors[k])
                 /\ \A i, j \in DOMAIN present :
                        i < j => PositionOf(present[i]) < PositionOf(present[j])

\* C1 witness: step 2 has listed a competitor for a city where the only value it
\* has is 0, and has left an enabled competitor out of a city where its field map
\* exists with six values None
C1_Witness ==
    /\ pc = "generate"
    /\ \E city \in Range(config.cities) : \E i \in DOMAIN city_competitors[city] :
          \A f \in FieldSet :
              LET val == FieldMap(city_competitors[city][i], city)[f]
              IN val.t = "none" \/ (val.t = "int" /\ val.v = 0)
    /\ \E city \in Range(config.cities) : \E k \in DOMAIN config.competitors :
          /\ config.competitors[k].enabled
          /\ DOMAIN FieldMap(config.competitors[k], city) = FieldSet
          /\ ~SeqContains(city_competitors[city], config.competitors[k])

\* the layout of the sheet "Data" is complete: generate() is about to save it, or
\* the run is over
LayoutDone == pc \in {"generate_save", "done"}

\* the rows below the title that the layout has passed; a row has cells or is a
\* blank separator
LaidRows == FirstDataRow..(current_row - 1)
HasRow(r) == <<r, 1>> \in DOMAIN ws
RowLabel(r) == ws[<<r, 1>>].value.v
RowStyle(r) == ws[<<r, 1>>].style
IsHeaderRow(r) == HasRow(r) /\ RowStyle(r) = "header"

\* the block of a city on the sheet: from the column-header row above its
\* city-name row to the row before the next column-header row
CityRowOf(city) ==
    CHOOSE r \in LaidRows : HasRow(r) /\ RowStyle(r) = "city" /\ RowLabel(r) = city
BlockRows(city) ==
    LET city_row == CityRowOf(city)
        later == {h \in (city_row + 1)..(current_row - 1) : IsHeaderRow(h)}
        next_header == IF later = {} THEN current_row
                       ELSE CHOOSE h \in later : \A g \in later : h <= g
    IN {r \in (city_row - 1)..(next_header - 1) : HasRow(r)}

\* the rows among rows that are styled as competitor rows
CompetitorRowsIn(rows) == {r \in rows : RowStyle(r) \in {"data", "data_bold"}}

ConfiguredNames == {config.competitors[k].name : k \in DOMAIN config.competitors}

\* C2: when the layout is complete, the competitor names among the keys of
\* row_map[city] are exactly the names of the city's presence list, their rows
\* increase in the order of that list, and the city's block has a competitor row
\* for each of them and for nobody else.
C2_RowMapMatchesPresence ==
    LayoutDone =>
        \A city \in Range(config.cities) :
            LET present == city_competitors[city]
                names == {present[i].name : i \in DOMAIN present}
                competitor_rows == CompetitorRowsIn(BlockRows(city))
            IN /\ city \in DOMAIN row_map
               /\ DOMAIN row_map[city] \cap ConfiguredNames = names
               /\ \A i, j \in DOMAIN present :
                      i < j => row_map[city][present[i].name] < row_map[city][present[j].name]
               /\ {RowLabel(r) : r \in competitor_rows} = names
               /\ Cardinality(competitor_rows) = Len(present)
               /\ \A i \in DOMAIN present :
                      /\ row_map[city][present[i].name] \in competitor_rows
                      /\ RowLabel(row_map[city][present[i].name]) = present[i].name

\* C2 witness: the layout is complete, a city has two present competitors, and an
\* enabled competitor is absent from a city where another one is present
C2_Witness ==
    /\ pc = "generate_save"
    /\ \E city \in Range(config.cities) : Len(city_competitors[city]) >= 2
    /\ \E city \in Range(config.cities) : \E k \in DOMAIN config.competitors :
          /\ config.competitors[k].enabled
          /\ ~SeqContains(city_competitors[city], config.competitors[k])
          /\ city_competitors[city] # <<>>

\* the rows taken by the first n competitors of a presence list: one each, and
\* one per markup row
RECURSIVE RowsTaken(_, _)
RowsTaken(present, n) ==
    IF n = 0 THEN 0 ELSE RowsTaken(present, n - 1) + 1 + Len(present[n].markup_rows)

\* C3: when the layout is complete, every city block is, from its column-header
\* row h down: the city-name row at h+1, then per present competitor in presence
\* order its own row followed at once by one row per entry of its markup-row list
\* in list order; these are all the competitor and markup rows of the block, so
\* they take 2 + sum(1 + |markup_rows|) rows with the two head rows; the first
\* block's header row is row 2.
C3_BlockRowOrder ==
    LayoutDone =>
        /\ config.cities # <<>> => IsHeaderRow(2)
        /\ \A city \in Range(config.cities) :
              LET present == city_competitors[city]
                  h == CityRowOf(city) - 1
                  taken == RowsTaken(present, Len(present))
              IN /\ IsHeaderRow(h)
                 /\ \A i \in DOMAIN present :
                        LET own_row == h + 2 + RowsTaken(present, i - 1)
                        IN /\ HasRow(own_row)
                           /\ RowStyle(own_row) \in {"data", "data_bold"}
                           /\ RowLabel(own_row) = present[i].name
                           /\ \A k \in DOMAIN present[i].markup_rows :
                                  /\ HasRow(own_row + k)
                                  /\ RowStyle(own_row + k) = "markup"
                                  /\ RowLabel(own_row + k) = present[i].markup_rows[k].name
                 /\ {r \in BlockRows(city) : RowStyle(r) \in {"data", "data_bold", "markup"}}
                        = (h + 2)..(h + 1 + taken)

\* C3 witness: the layout is complete and a block that is not the first holds two
\* present competitors, the first of them with two markup rows or more
C3_Witness ==
    /\ pc = "generate_save"
    /\ \E city \in Range(config.cities) :
          /\ CityRowOf(city) > 3
          /\ Len(city_competitors[city]) >= 2
          /\ Len(city_competitors[city][1].markup_rows) >= 2

\* the letters of the output columns of the six fields, in the fixed field order
FieldLetters == <<"B", "C", "D", "E", "F", "G">>

\* the rows of a city's block styled as the average row
AverageRows(city) == {r \in BlockRows(city) : RowStyle(r) = "average"}

\* C4: with include_average, when the layout is complete every city with a
\* present competitor has one average row, and each of its six field cells holds
\* =AVERAGE(<col>first:<col>last), first being the row of the first present
\* competitor and last the last row taken by the last present competitor (its
\* last markup row, or its own row without markup rows); rows first..last are
\* exactly the competitor and markup rows of the block.
C4_AverageRange ==
    (LayoutDone /\ config.output_config.include_average) =>
        \A city \in Range(config.cities) :
            LET present == city_competitors[city]
                h == CityRowOf(city) - 1
                first == h + 2
                last == h + 1 + RowsTaken(present, Len(present))
            IN present # <<>> =>
                 /\ Cardinality(AverageRows(city)) = 1
                 /\ \A r \in AverageRows(city) : \A fi \in DOMAIN FIELDS :
                        ws[<<r, 1 + fi>>].value =
                            FormulaV("=AVERAGE(" \o FieldLetters[fi] \o ToString(first) \o ":"
                                     \o FieldLetters[fi] \o ToString(last) \o ")")
                 /\ RowLabel(first) = present[1].name
                 /\ RowStyle(last) \in
                        (IF present[Len(present)].markup_rows = <<>>
                           THEN {"data", "data_bold"} ELSE {"markup"})
                 /\ {r \in BlockRows(city) : RowStyle(r) \in {"data", "data_bold", "markup"}}
                        = first..last

\* C4 witness: the layout is complete with an average row for a city whose last
\* present competitor has markup rows, and for a city whose last present
\* competitor has none
C4_Witness ==
    /\ pc = "generate_save"
    /\ config.output_config.include_average
    /\ \E city \in Range(config.cities) :
          LET present == city_competitors[city]
          IN Len(present) >= 2 /\ present[Len(present)].markup_rows # <<>>
    /\ \E city \in Range(config.cities) :
          LET present == city_competitors[city]
          IN present # <<>> /\ present[Len(present)].markup_rows = <<>>

\* C5: when the layout is complete, every city without a present competitor
\* still has its column-header row and its city-name row, no cell of its block
\* holds a formula, and the field cells of its average row are empty.
C5_EmptyCityBlock ==
    LayoutDone =>
        \A city \in Range(config.cities) :
            city_competitors[city] = <<>> =>
                /\ \E r \in LaidRows :
                      /\ HasRow(r) /\ RowStyle(r) = "city" /\ RowLabel(r) = city
                      /\ IsHeaderRow(r - 1)
                /\ \A r \in BlockRows(city) : \A col \in Columns :
                      <<r, col>> \in DOMAIN ws => ws[<<r, col>>].value.t # "formula"
                /\ \A r \in AverageRows(city) : \A fi \in DOMAIN FIELDS :
                      ws[<<r, 1 + fi>>].value.t = "none"

\* C5 witness: the layout is complete, averages are on, a city has no present
\* competitor and its block has an average row, while another city has a present
\* competitor
C5_Witness ==
    /\ pc = "generate_save"
    /\ config.output_config.include_average
    /\ \E city \in Range(config.cities) :
          city_competitors[city] = <<>> /\ AverageRows(city) # {}
    /\ \E city \in Range(config.cities) : city_competitors[city] # <<>>

\* step 4 is over: every write_competitor_data call of the run has been made
WritesDone == pc = "save"

\* the (city, competitor) pairs step 4 writes: the competitor is in the city's
\* presence list
WrittenPairs ==
    UNION {{<<city, city_competitors[city][i]>> : i \in DOMAIN city_competitors[city]} :
              city \in Range(config.cities)}

\* the cell of the sheet "Data" for (city, competitor, field), the raw value
\* collected for it and the competitor's configured markup for the field
DataCell(city, competitor, fi) == ws[<<row_map[city][competitor.name], 1 + fi>>].value
RawValue(city, competitor, fi) == FieldMap(competitor, city)[FIELDS[fi]]
ConfiguredMarkup(competitor, fi) == competitor.markups[FIELDS[fi]]

\* two cell values are the same Python value
SameValue(a, b) == a.t = b.t /\ a.v = b.v

\* the text =<raw>*(1+<sheet>!<col><r>/100)
MarkupFormulaText(raw, fi, r) ==
    "=" \o Fmt(raw) \o "*(1+" \o MarkupsSheetTitle \o "!" \o FieldLetters[fi]
    \o ToString(r) \o "/100)"

\* the cell holds the markup formula over the competitor's markups-sheet row
HoldsMarkupFormula(city, competitor, fi) ==
    /\ competitor.name \in DOMAIN markups_row_map
    /\ SameValue(DataCell(city, competitor, fi),
                 FormulaV(MarkupFormulaText(RawValue(city, competitor, fi), fi,
                                            markups_row_map[competitor.name])))

\* C6 as stated: after the writes, every written cell of a competitor whose markup
\* for the field is non-zero is a formula over the competitor's markups-sheet row.
C6_AsStated ==
    WritesDone =>
        \A pair \in WrittenPairs : \A fi \in DOMAIN FIELDS :
            NonZero(ConfiguredMarkup(pair[2], fi)) => HoldsMarkupFormula(pair[1], pair[2], fi)

\* C6 amended: after the writes, every written cell whose raw value is a number,
\* of a competitor whose markup for the field is non-zero, in a run with the
\* markups sheet enabled, is a formula over the competitor's markups-sheet row.
C6_NonZeroMarkupFormula ==
    (WritesDone /\ config.output_config.markups_sheet) =>
        \A pair \in WrittenPairs : \A fi \in DOMAIN FIELDS :
            (NonZero(ConfiguredMarkup(pair[2], fi)) /\ IsNumber(RawValue(pair[1], pair[2], fi)))
                => HoldsMarkupFormula(pair[1], pair[2], fi)

\* C6 witness: the writes are over with the markups sheet enabled, and a written
\* cell has a numeric raw value and a non-zero markup, another a text raw value and
\* a non-zero markup
C6_Witness ==
    /\ WritesDone
    /\ config.output_config.markups_sheet
    /\ \E pair \in WrittenPairs : \E fi \in DOMAIN FIELDS :
          /\ NonZero(ConfiguredMarkup(pair[2], fi))
          /\ IsNumber(RawValue(pair[1], pair[2], fi))
    /\ \E pair \in WrittenPairs : \E fi \in DOMAIN FIELDS :
          /\ NonZero(ConfiguredMarkup(pair[2], fi))
          /\ RawValue(pair[1], pair[2], fi).t = "str"

\* C7: after the writes, every formula in a competitor's cell is the text
\* =<raw>*(1+Markups!<col><r>/100) with <raw> the collected value as Python prints
\* it, <col> the field's output column (B..G in the fixed field order) and <r> the
\* competitor's row of the markups sheet; that row is labelled with the
\* competitor's name, belongs to no other competitor, and its cell in column
\* <col> holds the competitor's configured markup for that field.
C7_MarkupFormulaForm ==
    WritesDone =>
        \A pair \in WrittenPairs : \A fi \in DOMAIN FIELDS :
            DataCell(pair[1], pair[2], fi).t = "formula" =>
                /\ HoldsMarkupFormula(pair[1], pair[2], fi)
                /\ LET r == markups_row_map[pair[2].name]
                   IN /\ <<r, 1 + fi>> \in DOMAIN markups_ws
                      /\ SameValue(markups_ws[<<r, 1 + fi>>].value,
                                   ConfiguredMarkup(pair[2], fi))
                      /\ SameValue(markups_ws[<<r, 1>>].value, StrV(pair[2].name))
                      /\ \A other \in DOMAIN markups_row_map :
                             other # pair[2].name => markups_row_map[other] # r

\* C7 witness: the writes are over and two competitors have a markup formula,
\* each over its own row of the markups sheet, in different columns
C7_Witness ==
    /\ WritesDone
    /\ \E p1, p2 \in WrittenPairs : \E f1, f2 \in DOMAIN FIELDS :
          /\ p1[2].name # p2[2].name
          /\ f1 # f2
          /\ DataCell(p1[1], p1[2], f1).t = "formula"
          /\ DataCell(p2[1], p2[2], f2).t = "formula"

\* C8: after the writes, a written cell holds the raw value itself, not a
\* formula, when the raw value is a number and the competitor's markup for the
\* field is zero, when the markups sheet is disabled, and when the raw value is
\* text or None whatever the markup.
C8_LiteralOtherwise ==
    WritesDone =>
        \A pair \in WrittenPairs : \A fi \in DOMAIN FIELDS :
            (\/ ~IsNumber(RawValue(pair[1], pair[2], fi))
             \/ ~NonZero(ConfiguredMarkup(pair[2], fi))
             \/ ~config.output_config.markups_sheet)
                => SameValue(DataCell(pair[1], pair[2], fi), RawValue(pair[1], pair[2], fi))

\* C8 witness: the writes are over with the markups sheet disabled, and the
\* written cells include a number with a non-zero markup, a number with a zero
\* markup, a text with a non-zero markup and a None
C8_Witness ==
    /\ WritesDone
    /\ ~config.output_config.markups_sheet
    /\ \E pair \in WrittenPairs :
          /\ \E fi \in DOMAIN FIELDS :
                /\ IsNumber(RawValue(pair[1], pair[2], fi))
                /\ NonZero(ConfiguredMarkup(pair[2], fi))
          /\ \E fi \in DOMAIN FIELDS :
                /\ IsNumber(RawValue(pair[1], pair[2], fi))
                /\ ~NonZero(ConfiguredMarkup(pair[2], fi))
          /\ \E fi \in DOMAIN FIELDS :
                /\ RawValue(pair[1], pair[2], fi).t = "str"
                /\ NonZero(ConfiguredMarkup(pair[2], fi))
          /\ \E fi \in DOMAIN FIELDS : RawValue(pair[1], pair[2], fi).t = "none"

\* the text of a markup row's cell over the competitor's own cell
MarkupRowText(mk_row, fi, competitor_row) ==
    IF NonZero(mk_row.percent)
      THEN "=" \o FieldLetters[fi] \o ToString(competitor_row) \o "*(1+"
           \o Fmt(mk_row.percent) \o "/100)"
      ELSE "=" \o FieldLetters[fi] \o ToString(competitor_row)

\* C9 as stated: after the writes, for every present competitor, every entry k of
\* its markup-row list and every field, the cell at the entry's laid-out row (the
\* k-th row under the competitor's row) and the field's column holds
\* =<col><competitorRow>*(1+<percent>/100) when the entry's percent is non-zero
\* and =<col><competitorRow> when it is zero.
C9_MarkupRowFormulas ==
    WritesDone =>
        \A pair \in WrittenPairs :
            LET competitor_row == row_map[pair[1]][pair[2].name]
            IN \A k \in DOMAIN pair[2].markup_rows : \A fi \in DOMAIN FIELDS :
                   SameValue(ws[<<competitor_row + k, 1 + fi>>].value,
                             FormulaV(MarkupRowText(pair[2].markup_rows[k], fi,
                                                    competitor_row)))

\* C9 witness of the failure: the writes are over and the row laid out for an
\* entry of a present competitor's markup-row list holds no formula at all
C9_EmptyMarkupRow ==
    /\ WritesDone
    /\ \E pair \in WrittenPairs : \E k \in DOMAIN pair[2].markup_rows :
          \A fi \in DOMAIN FIELDS :
              ws[<<row_map[pair[1]][pair[2].name] + k, 1 + fi>>].value.t = "none"

\* the markups sheet exists and markups_row_map has a row for every enabled
\* competitor and for nobody else
MarkupsPopulated ==
    /\ markups_ws # EmptyDict
    /\ DOMAIN markups_row_map = {enabled_competitors[i].name : i \in DOMAIN enabled_competitors}
    /\ \A i \in DOMAIN enabled_competitors :
          <<markups_row_map[enabled_competitors[i].name], 1>> \in DOMAIN markups_ws

\* no write_competitor_data call has written yet: the cache of written values is
\* empty for every city
NothingWritten == \A city \in DOMAIN data : data[city] = EmptyDict

\* C10 as stated: in every run, step 4 (the write_competitor_data calls) runs
\* only with the markups sheet built and markups_row_map fully populated, and
\* nothing is written before that.
C10_AsStated ==
    /\ pc = "write" => MarkupsPopulated
    /\ pc \in {"generate_save", "markups"} => NothingWritten

\* C10 amended: in every run with the markups sheet enabled, step 4 runs only
\* with the markups sheet built and markups_row_map fully populated, and nothing
\* is written before that.
C10_MarkupsBeforeWrites ==
    config.output_config.markups_sheet =>
        /\ pc = "write" => MarkupsPopulated
        /\ pc \in {"generate_save", "markups"} => NothingWritten

\* C10 witness: with the markups sheet enabled, step 4 is about to make its first
\* write_competitor_data call, for the first of two enabled competitors
C10_Witness ==
    /\ config.output_config.markups_sheet
    /\ pc = "write"
    /\ idx = 1
    /\ Len(enabled_competitors) >= 2
    /\ NothingWritten
    /\ \E pair \in WrittenPairs : pair[2] = enabled_competitors[1]

-----------------------------------------------------------------------------
(* The order of the stages of process_all *)

\* the names of the enabled competitors, read off the configuration
EnabledNames ==
    {config.competitors[k].name : k \in {j \in DOMAIN config.competitors :
                                            config.competitors[j].enabled}}

\* step 1 is complete: every enabled competitor has its entry in collected
CollectionComplete == EnabledNames \subseteq DOMAIN collected

\* step 2 is complete: every configured city has its presence list
PresenceComplete == DOMAIN city_competitors = Range(config.cities)

\* _create_empty_rows is complete: every configured city has its rows
LayoutComplete == DOMAIN row_map = Range(config.cities)

\* a step of each stage, told by what it changes
CollectionStep == collected' # collected
PresenceStep == city_competitors' # city_competitors
LayoutStep == wb' # wb \/ row_map' # row_map \/ current_row' # current_row
DataWriteStep == wb /\ data' # data

\* C11: the stages are never interleaved.  A collection step happens only before
\* the presence map and the workbook exist; the presence map is computed in one
\* step taken when every enabled competitor has been collected; a layout step is
\* taken only with the presence map complete and changes neither it nor the
\* collected data; a data cell is written only with the layout complete, and
\* that step changes neither the layout, the presence map nor the collected data.
C11_StagesInOrder ==
    [][ /\ CollectionStep =>
              /\ city_competitors = EmptyDict
              /\ ~wb
              /\ UNCHANGED <<city_competitors, wb, ws, row_map, data>>
        /\ PresenceStep =>
              /\ CollectionComplete
              /\ PresenceComplete'
              /\ ~wb
              /\ UNCHANGED <<collected, wb, ws, row_map, data>>
        /\ LayoutStep =>
              /\ CollectionComplete
              /\ PresenceComplete
              /\ UNCHANGED <<collected, city_competitors>>
              /\ \A city \in DOMAIN data' : data'[city] = EmptyDict
        /\ DataWriteStep =>
              /\ CollectionComplete
              /\ PresenceComplete
              /\ LayoutComplete
              /\ UNCHANGED <<collected, city_competitors, row_map, current_row>>
      ]_vars

\* C11 witness: two enabled competitors have been collected, both are present in
\* some city, and step 4 has written cells of both
C11_Witness ==
    /\ pc = "save"
    /\ Cardinality(EnabledNames) = 2
    /\ CollectionComplete
    /\ \E city \in DOMAIN data : EnabledNames \subseteq DOMAIN data[city]

-----------------------------------------------------------------------------
(* The selection of the source row of a city *)

\* the sheet collect_competitor_data reads for a competitor whose file opens
Readable(competitor) ==
    /\ competitor.file_path \in DOMAIN Disk
    /\ Disk[competitor.file_path].kind = "sheet"
SourceSheet(competitor) == Disk[competitor.file_path].rows

\* the best score of a row's city cell against the names of a city
RowScore(competitor, city, r) ==
    LET cell_str == Lower(Fmt(SheetCell(SourceSheet(competitor), "A", r)))
        names == get_city_names(config, city)
        scores == {WRatio(Lower(names[i]), cell_str) : i \in DOMAIN names}
    IN CHOOSE s \in scores : \A other \in scores : other <= s

\* the row's city cell is non-empty and reaches the threshold for some name
CrossesThreshold(competitor, city, r) ==
    /\ SheetCell(SourceSheet(competitor), "A", r).t # "none"
    /\ Truthy(SheetCell(SourceSheet(competitor), "A", r))
    /\ RowScore(competitor, city, r) >= competitor.fuzzy_match_threshold

\* the condition set of the pair (competitor, city) rejects the row
Vetoed(competitor, city, r) ==
    /\ competitor.special_conditions
    /\ competitor.name = "Energy"
    /\ city = "Vladivostok"
    /\ ~SameValue(SheetCell(SourceSheet(competitor), "B", r), StrV("Auto"))

QualifyingRows(competitor, city) ==
    {r \in 1..Len(SourceSheet(competitor)) :
        CrossesThreshold(competitor, city, r) /\ ~Vetoed(competitor, city, r)}

\* the values of the six source columns at row r
FieldsAtRow(competitor, r) ==
    [f \in FieldSet |->
        SheetCell(SourceSheet(competitor), competitor.source_columns[f], r)]

\* the competitors whose collection is over
CollectedCompetitors ==
    {config.competitors[k] : k \in {j \in DOMAIN config.competitors :
        config.competitors[j].enabled /\ config.competitors[j].name \in DOMAIN collected}}

\* step 1 has just ended: every enabled competitor has been collected and
\* collected does not change any more
CollectionOver == pc = "presence"

\* C12: when step 1 is over, for every collected competitor with a readable file
\* and every configured city the field map collected for the city holds the
\* values of the lowest-numbered row whose city cell is non-empty, reaches the
\* threshold for some search name and is not vetoed, whatever later rows score;
\* there is no field map when no row qualifies.
C12_FirstQualifyingRow ==
    CollectionOver =>
        \A competitor \in CollectedCompetitors : \A city \in Range(config.cities) :
            Readable(competitor) =>
                LET rows == QualifyingRows(competitor, city)
                IN IF rows = {}
                     THEN ~HasCity(collected[competitor.name], city)
                     ELSE /\ HasCity(collected[competitor.name], city)
                          /\ LET first == CHOOSE r \in rows : \A q \in rows : r <= q
                             IN \A f \in FieldSet :
                                    SameValue(CityFields(collected[competitor.name], city)[f],
                                              FieldsAtRow(competitor, first)[f])

\* C12 witness: a city was collected from a row that reaches the threshold with
\* a lower score than a later qualifying row whose values differ, and a
\* configured city has no qualifying row and no field map in a readable sheet
C12_Witness ==
    /\ CollectionOver
    /\ \E competitor \in CollectedCompetitors :
        /\ Readable(competitor)
        /\ \E city \in Range(config.cities) :
              \E r, q \in QualifyingRows(competitor, city) :
                  /\ r < q
                  /\ \A p \in QualifyingRows(competitor, city) : r <= p
                  /\ RowScore(competitor, city, r) < RowScore(competitor, city, q)
                  /\ \E f \in FieldSet : ~SameValue(FieldsAtRow(competitor, r)[f],
                                                     FieldsAtRow(competitor, q)[f])
                  /\ HasCity(collected[competitor.name], city)
    /\ \E competitor \in CollectedCompetitors :
        /\ Readable(competitor)
        /\ \E city \in Range(config.cities) :
              /\ QualifyingRows(competitor, city) = {}
              /\ ~HasCity(collected[competitor.name], city)

-----------------------------------------------------------------------------
(* The condition veto *)

\* the pair the condition set names
ConditionPair(competitor, city) ==
    competitor.special_conditions /\ competitor.name = "Energy" /\ city = "Vladivostok"

\* column B of a source row holds the required marker
HasMarker(competitor, r) ==
    SameValue(SheetCell(SourceSheet(competitor), "B", r), StrV("Auto"))

\* the rows of the sheet that cross the threshold for the city
CrossingRows(competitor, city) ==
    {r \in 1..Len(SourceSheet(competitor)) : CrossesThreshold(competitor, city, r)}

\* the field map collected for the city is that of source row r
CollectedFromRow(competitor, city, r) ==
    /\ HasCity(collected[competitor.name], city)
    /\ \A f \in FieldSet :
          SameValue(CityFields(collected[competitor.name], city)[f],
                    FieldsAtRow(competitor, r)[f])

\* C13: when step 1 is over, for the pair (Energy, Vladivostok) with the
\* condition set configured the rows that cross the threshold without the marker
\* "Auto" in column B are passed over: the city is collected from the first crossing row that has the marker,
\* and is not collected when no crossing row has it.  For any other pair, and for
\* any competitor without a condition set, the city is collected from the first
\* crossing row whatever its column B holds.
C13_ConditionVeto ==
    CollectionOver =>
        \A competitor \in CollectedCompetitors : \A city \in Range(config.cities) :
            Readable(competitor) =>
                LET crossing == CrossingRows(competitor, city)
                    eligible == IF ConditionPair(competitor, city)
                                  THEN {r \in crossing : HasMarker(competitor, r)}
                                  ELSE crossing
                IN IF eligible = {}
                     THEN ~HasCity(collected[competitor.name], city)
                     ELSE CollectedFromRow(competitor, city,
                                           CHOOSE r \in eligible : \A q \in eligible : r <= q)

\* C13 witness: Energy with the condition set was collected for Vladivostok from
\* the "Auto" row that lies below a crossing "Manual" row
C13_Witness ==
    \E competitor \in CollectedCompetitors :
        /\ CollectionOver
        /\ ConditionPair(competitor, "Vladivostok")
        /\ SeqContains(config.cities, "Vladivostok")
        /\ \E r, q \in CrossingRows(competitor, "Vladivostok") :
              /\ r < q
              /\ ~HasMarker(competitor, r)
              /\ HasMarker(competitor, q)
              /\ CollectedFromRow(competitor, "Vladivostok", q)
              /\ ~CollectedFromRow(competitor, "Vladivostok", r)

-----------------------------------------------------------------------------
(* Source files that are missing or do not open *)

\* the enabled competitors of the configuration
EnabledSet == {config.competitors[k] : k \in {j \in DOMAIN config.competitors :
                                                 config.competitors[j].enabled}}

\* C14: a competitor whose file is missing or does not open has the empty result
\* set, and the run goes on as without it: when step 1 is over every enabled
\* competitor has been collected, a readable one has a field map for every city
\* with a qualifying row; when the layout is over every enabled competitor has
\* its row in every city where it has a value; at the save step every such
\* (competitor, city) has been written and every enabled competitor has its
\* result; and process_all returns only from the save step or from a generate()
\* that wrote no file.
C14_MissingFileNotFatal ==
    /\ [](/\ \A competitor \in CollectedCompetitors :
                ~Readable(competitor) => collected[competitor.name] = <<>>
          /\ CollectionOver =>
                \A competitor \in EnabledSet :
                    /\ competitor.name \in DOMAIN collected
                    /\ Readable(competitor) =>
                          \A city \in Range(config.cities) :
                              QualifyingRows(competitor, city) # {}
                                  => HasCity(collected[competitor.name], city)
          /\ pc = "generate_save" =>
                \A competitor \in EnabledSet : \A city \in Range(config.cities) :
                    Usable(competitor, city) => competitor.name \in DOMAIN row_map[city]
          /\ pc = "save" =>
                /\ \A competitor \in EnabledSet : \A city \in Range(config.cities) :
                       Usable(competitor, city) => competitor.name \in DOMAIN data[city]
                /\ {results[i].competitor : i \in DOMAIN results} =
                       {competitor.name : competitor \in EnabledSet})
    /\ [][pc' = "done" =>
              \/ pc = "save"
              \/ pc = "generate_save" /\ files' = files]_vars

\* C14 witness: the save step is reached in a run whose first enabled competitor
\* has no readable file and whose second one has been collected and written
C14_Witness ==
    /\ pc = "save"
    /\ Len(enabled_competitors) = 2
    /\ ~Readable(enabled_competitors[1])
    /\ Readable(enabled_competitors[2])
    /\ collected[enabled_competitors[1].name] = <<>>
    /\ \E city \in Range(config.cities) :
          enabled_competitors[2].name \in DOMAIN data[city]

-----------------------------------------------------------------------------
(* What process_all reports *)

\* the enabled competitor a result is about
CompetitorOfResult(result) ==
    CHOOSE competitor \in EnabledSet : competitor.name = result.competitor

\* C15: in the results of process_all, the result of a competitor whose source
\* file is missing or could not be read has a non-empty error list.
C15_ErrorsRecorded ==
    \A i \in DOMAIN results :
        ~Readable(CompetitorOfResult(results[i])) => results[i].errors # <<>>

\* C15, the failing case: process_all has returned, and the result of a
\* competitor whose file could not be read says success with no error
C15_NoErrorRecorded ==
    /\ pc = "done"
    /\ \E i \in DOMAIN results :
          /\ ~Readable(CompetitorOfResult(results[i]))
          /\ collected[results[i].competitor] = <<>>
          /\ results[i].success
          /\ results[i].errors = <<>>

\* the final save of step 5 has failed
FinalSaveFailed == save_returned = "false"

\* C16: in every run in which the final save fails, the run has written no
\* output file.
C16_NoArtifactOnFailedSave == FinalSaveFailed => config.output_file \notin DOMAIN files

\* C16, the failing case: the final save has failed and the output file is on
\* the disk as generate() saved it, with cells still empty that the workbook in
\* memory has values for
C16_SkeletonLeft ==
    /\ FinalSaveFailed
    /\ config.output_file \in DOMAIN files
    /\ \E cell \in DOMAIN ws :
          /\ files[config.output_file].ws[cell].value.t = "none"
          /\ ws[cell].value.t # "none"

\* C17: when the final save has failed, what process_all returns does not say
\* success for every competitor.
C17_SaveFailureReported ==
    (pc = "done" /\ FinalSaveFailed) => \E i \in DOMAIN results : ~results[i].success

\* C17, the failing case: the final save has failed and process_all has returned
\* a result for each of two competitors, all saying success with no error
C17_FailureLooksLikeSuccess ==
    /\ pc = "done"
    /\ FinalSaveFailed
    /\ Len(results) >= 2
    /\ \A i \in DOMAIN results : results[i].success /\ results[i].errors = <<>>

-----------------------------------------------------------------------------
(* A run without an output path *)

\* C18: in a run whose configuration has no output path, no file is ever
\* written, no save is attempted, the markups sheet is never built, no data cell
\* is written, steps 3b to 5 (markups sheet, writes, final save) are never
\* entered, and process_all returns the empty list.
C18_NoOutputPath ==
    config.output_file = "" =>
        /\ files = EmptyDict
        /\ save_returned = "pending"
        /\ markups_ws = EmptyDict
        /\ markups_row_map = EmptyDict
        /\ NothingWritten
        /\ pc \notin {"markups", "write", "save"}
        /\ pc = "done" => results = <<>>

\* C18 witness: process_all has returned in a run without an output path, after
\* a layout with a present competitor
C18_Witness ==
    /\ config.output_file = ""
    /\ pc = "done"
    /\ wb
    /\ \E city \in Range(config.cities) : city_competitors[city] # <<>>
    /\ results = <<>>

-----------------------------------------------------------------------------
(* The progress callback *)

\* the calls a whole run makes: for each of the first k configured competitors
\* that is enabled, (name, FALSE) then (name, TRUE)
RECURSIVE ExpectedCalls(_)
ExpectedCalls(k) ==
    IF k = 0 THEN <<>>
    ELSE ExpectedCalls(k - 1) \o
         (IF config.competitors[k].enabled
            THEN << <<config.competitors[k].name, FALSE>>,
                    <<config.competitors[k].name, TRUE>> >>
            ELSE <<>>)

\* the competitors notified as started, and as done
Started == {progress[i][1] : i \in {j \in DOMAIN progress : ~progress[j][2]}}
Finished == {progress[i][1] : i \in {j \in DOMAIN progress : progress[j][2]}}

\* C19: the calls made so far are always the first calls of the sequence that
\* has (name, FALSE), (name, TRUE) for each enabled competitor in configured
\* order and nothing for a disabled one; a competitor is collected after its
\* start call and before its done call (while it is being collected the last call
\* is its start call, and every competitor notified as done has been collected,
\* readable file or not); once step 1 is over the calls are that whole sequence.
C19_ProgressCalls ==
    LET expected == ExpectedCalls(Len(config.competitors))
    IN /\ Len(progress) <= Len(expected)
       /\ \A i \in DOMAIN progress : progress[i] = expected[i]
       /\ Finished \subseteq DOMAIN collected
       /\ DOMAIN collected \subseteq Started
       /\ pc = "collect" =>
             /\ progress[Len(progress)] = <<enabled_competitors[idx].name, FALSE>>
             /\ enabled_competitors[idx].name \notin DOMAIN collected
       /\ pc = "notify_done" => DOMAIN collected = Started
       /\ pc \in AfterPresence => progress = expected

\* C19 witness: step 1 is over with four calls made, the first two for a
\* competitor whose file could not be read
C19_Witness ==
    /\ pc = "presence"
    /\ Len(progress) = 4
    /\ ~Readable(enabled_competitors[1])
    /\ progress[1] = <<enabled_competitors[1].name, FALSE>>
    /\ progress[2] = <<enabled_competitors[1].name, TRUE>>
    /\ progress[3][1] = enabled_competitors[2].name

-----------------------------------------------------------------------------
(* The order of the city blocks *)

\* C20: when the layout is complete, for any two configured cities a < b in
\* string order every row of a's block (header, city row, competitor and markup
\* rows, average and own rows) has a smaller row number than every row of b's
\* block, and every row recorded for a in row_map is smaller than every row
\* recorded for b, whatever the insertion order of the cities.
C20_CityBlocksSorted ==
    LayoutDone =>
        \A a, b \in Range(config.cities) :
            StrLess(a, b) =>
                /\ \A ra \in BlockRows(a) : \A rb \in BlockRows(b) : ra < rb
                /\ \A ka \in DOMAIN row_map[a] : \A kb \in DOMAIN row_map[b] :
                       row_map[a][ka] < row_map[b][kb]

\* C20 witness: the layout is complete for a configuration whose first city is
\* greater than its second one, and the second city's block lies above the first
\* city's
C20_Witness ==
    /\ pc = "generate_save"
    /\ StrLess(config.cities[2], config.cities[1])
    /\ BlockRows(config.cities[1]) # {}
    /\ BlockRows(config.cities[2]) # {}
    /\ CityRowOf(config.cities[2]) < CityRowOf(config.cities[1])
    /\ city_competitors[config.cities[1]] # <<>>
    /\ city_competitors[config.cities[2]] # <<>>

-----------------------------------------------------------------------------
(* Two runs on the same processor *)

\* two sheets have the same cells with the same values and styles
SameSheet(a, b) ==
    /\ DOMAIN a = DOMAIN b
    /\ \A rc \in DOMAIN a :
          /\ a[rc].style = b[rc].style
          /\ SameValue(a[rc].value, b[rc].value)

\* the second call has made all its writes, as the first had, and the
\* configuration is the one of the first call (the source sheets never change)
SecondRunOfSame ==
    /\ run = "second"
    /\ save_returned # "pending"
    /\ first_run.completed
    /\ first_run.config = config

\* C21: when the second call of process_all on a processor has made all its
\* writes under the configuration and source sheets of a first call that made
\* all of its own, row_map, markups_row_map and the cells of both sheets (values
\* and formula texts) are those the first call ended with.
C21_Idempotent ==
    SecondRunOfSame =>
        /\ row_map = first_run.row_map
        /\ markups_row_map = first_run.markups_row_map
        /\ SameSheet(ws, first_run.ws)
        /\ SameSheet(markups_ws, first_run.markups_ws)

\* C21 witness: a second run of the same configuration is over, with the markups
\* sheet built and a markup formula among the cells of two competitors
C21_Witness ==
    /\ SecondRunOfSame
    /\ config.output_config.markups_sheet
    /\ Len(enabled_competitors) = 2
    /\ \E city \in Range(config.cities) :
          /\ Len(city_competitors[city]) = 2
          /\ \E i \in 1..2 : \E fi \in DOMAIN FIELDS :
                HoldsMarkupFormula(city, city_competitors[city][i], fi)

\* the row of the markups sheet exists in this run's workbook and is the
\* competitor's
MarkupsRowBuilt(name, r) ==
    /\ <<r, 1>> \in DOMAIN markups_ws
    /\ SameValue(markups_ws[<<r, 1>>].value, StrV(name))

\* C22: in every run on a generator, while and after step 4 writes the cells,
\* row_map and the value cache hold exactly the cities of the run's
\* configuration, every entry of markups_row_map is a row of the markups sheet of
\* the run's workbook, and every markup formula written refers to such a row.
C22_NoStateAcrossRuns ==
    pc \in {"write", "save"} =>
        /\ DOMAIN row_map = Range(config.cities)
        /\ DOMAIN data = Range(config.cities)
        /\ \A name \in DOMAIN markups_row_map :
              MarkupsRowBuilt(name, markups_row_map[name])
        /\ WritesDone =>
              \A pair \in WrittenPairs : \A fi \in DOMAIN FIELDS :
                  HoldsMarkupFormula(pair[1], pair[2], fi)
                      => MarkupsRowBuilt(pair[2].name, markups_row_map[pair[2].name])

\* C22, the failing case: the second run has the markups sheet switched off, its
\* workbook has no markups sheet, and a cell it wrote is a formula over the row
\* that markups_row_map kept from the first run
C22_StaleMarkupReference ==
    /\ run = "second"
    /\ WritesDone
    /\ ~config.output_config.markups_sheet
    /\ first_run.config.output_config.markups_sheet
    /\ markups_ws = EmptyDict
    /\ \E pair \in WrittenPairs : \E fi \in DOMAIN FIELDS :
          HoldsMarkupFormula(pair[1], pair[2], fi)

-----------------------------------------------------------------------------
(* The rows of the markups sheet *)

\* the number of enabled competitors among the first k configured ones
EnabledUpTo(k) == Cardinality({j \in 1..k : config.competitors[j].enabled})

\* the rows of the markups sheet below its column headers that have cells
MarkupsDataRows == {rc[1] : rc \in {c \in DOMAIN markups_ws : c[1] > MarkupsHeaderRow}}

\* C23: once the markups sheet is built, its rows below the header are exactly
\* rows 4 .. 3+n for the n enabled competitors; the i-th enabled competitor in
\* configured order has row 3+i, in the sheet (its name in column A) and in
\* markups_row_map, whether or not it is present in any city; a disabled
\* competitor has no row; each of the six field cells of a row holds the
\* competitor's configured markup for the field, a number and not a formula.
C23_MarkupsSheetRows ==
    markups_ws # EmptyDict =>
        /\ MarkupsDataRows = 4..(3 + EnabledUpTo(Len(config.competitors)))
        /\ DOMAIN markups_row_map = EnabledNames
        /\ \A k \in DOMAIN config.competitors :
              LET competitor == config.competitors[k]
                  r == 3 + EnabledUpTo(k)
              IN competitor.enabled =>
                    /\ markups_row_map[competitor.name] = r
                    /\ SameValue(markups_ws[<<r, 1>>].value, StrV(competitor.name))
                    /\ \A fi \in DOMAIN FIELDS :
                          /\ IsNumber(markups_ws[<<r, 1 + fi>>].value)
                          /\ SameValue(markups_ws[<<r, 1 + fi>>].value,
                                       competitor.markups[FIELDS[fi]])

\* C23 witness: the markups sheet is built for two enabled competitors of which
\* the first is present in no city, and its row 4 holds a non-zero markup
C23_Witness ==
    /\ pc = "write"
    /\ markups_ws # EmptyDict
    /\ Len(enabled_competitors) = 2
    /\ \A city \in Range(config.cities) :
          ~SeqContains(city_competitors[city], enabled_competitors[1])
    /\ \E city \in Range(config.cities) :
          SeqContains(city_competitors[city], enabled_competitors[2])
    /\ \E fi \in DOMAIN FIELDS : markups_ws[<<4, 1 + fi>>].value.v # 0
    /\ markups_row_map[enabled_competitors[2].name] = 5

-----------------------------------------------------------------------------
(* The own-company row *)

\* the rows of a city's block styled as the own-company row
OwnRows(city) == {r \in BlockRows(city) : RowStyle(r) = "own"}

\* C24: when the layout is complete, a city has an own-company row (on the sheet
\* and under the reserved key in row_map) exactly when own_company.enabled and
\* include_average are both on; the row is then the one right below the city's
\* average row and carries the own company's name; with include_average off no
\* city has an average row, an own-company row or either reserved key.
C24_OwnRowNeedsAverage ==
    LayoutDone =>
        \A city \in Range(config.cities) :
            LET both == config.own_company.enabled /\ config.output_config.include_average
            IN /\ (OwnKey \in DOMAIN row_map[city]) <=> both
               /\ (OwnRows(city) # {}) <=> both
               /\ both =>
                     /\ AverageKey \in DOMAIN row_map[city]
                     /\ row_map[city][OwnKey] = row_map[city][AverageKey] + 1
                     /\ AverageRows(city) = {row_map[city][AverageKey]}
                     /\ OwnRows(city) = {row_map[city][OwnKey]}
                     /\ RowLabel(row_map[city][OwnKey]) = config.own_company.name
               /\ ~config.output_config.include_average =>
                     /\ AverageKey \notin DOMAIN row_map[city]
                     /\ OwnKey \notin DOMAIN row_map[city]
                     /\ AverageRows(city) = {}
                     /\ OwnRows(city) = {}

\* C24 witness: the layout is complete with the own company enabled and averages
\* on, and the own-company row of the second block follows the average row of a
\* city with a present competitor
C24_Witness ==
    /\ pc = "generate_save"
    /\ config.own_company.enabled
    /\ config.output_config.include_average
    /\ \E city \in Range(config.cities) :
          /\ city_competitors[city] # <<>>
          /\ CityRowOf(city) > 3
          /\ OwnKey \in DOMAIN row_map[city]
          /\ RowStyle(row_map[city][OwnKey] - 1) = "average"

-----------------------------------------------------------------------------
(* The separator rows *)

\* the last row of a city's block that has cells
LastBlockRow(city) ==
    CHOOSE r \in BlockRows(city) : \A q \in BlockRows(city) : q <= r

\* b is the city right after a in string order among the configured cities
NextCity(a, b) ==
    /\ StrLess(a, b)
    /\ ~\E c \in Range(config.cities) : StrLess(a, c) /\ StrLess(c, b)

\* C25: when the layout is complete, the column-header row of each city is the
\* last row of the block of the city before it in sorted order plus 2, the row
\* between them has no cell, and the layout ends right after the last row of the
\* last city's block: no separator row is counted after it.
C25_OneSeparatorBetweenBlocks ==
    LayoutDone =>
        \A a \in Range(config.cities) :
            /\ \A b \in Range(config.cities) :
                  NextCity(a, b) =>
                      /\ CityRowOf(b) - 1 = LastBlockRow(a) + 2
                      /\ IsHeaderRow(CityRowOf(b) - 1)
                      /\ ~HasRow(LastBlockRow(a) + 1)
            /\ (~\E b \in Range(config.cities) : StrLess(a, b)) =>
                  current_row = LastBlockRow(a) + 1

\* C25 witness: the layout is complete for two cities of which the first block
\* ends with an own-company row; the row after it is blank and the second
\* block's header follows
C25_Witness ==
    /\ pc = "generate_save"
    /\ \E a, b \in Range(config.cities) :
          /\ NextCity(a, b)
          /\ city_competitors[a] # <<>>
          /\ RowStyle(LastBlockRow(a)) = "own"
          /\ ~HasRow(LastBlockRow(a) + 1)
          /\ IsHeaderRow(LastBlockRow(a) + 2)
          /\ current_row = LastBlockRow(b) + 1

-----------------------------------------------------------------------------
(* The value cache *)

\* step 4 has made its write_competitor_data calls for (city, the k-th configured
\* competitor): the competitor is enabled, its pass of the loop is over and it is
\* in the city's presence list
WrittenByNow(city, k) ==
    /\ config.competitors[k].enabled
    /\ pc = "save" \/ EnabledUpTo(k) < idx
    /\ SeqContains(city_competitors[city], config.competitors[k])

\* two cache entries of a city, and two caches, hold the same values
SameCityData(a, b) ==
    /\ DOMAIN a = DOMAIN b
    /\ \A name \in DOMAIN a :
          /\ DOMAIN a[name] = DOMAIN b[name]
          /\ \A f \in DOMAIN a[name] : SameValue(a[name][f], b[name][f])
SameData(a, b) ==
    /\ DOMAIN a = DOMAIN b
    /\ \A city \in DOMAIN a : SameCityData(a[city], b[city])

\* the call c finds a workbook, the city in row_map, a row for the competitor
\* and one of the six fields: it writes a cell
Placeable(c) ==
    /\ wb
    /\ c.city \in DOMAIN row_map
    /\ c.competitor.name \in DOMAIN row_map[c.city]
    /\ c.field \in {"convert", "minimum_1", "minimum_2", "volume", "weight_100",
                     "weight_3000"}

\* C26: during and after step 4 of process_all the cache data holds, for every
\* (city, competitor) whose cells have been written, each field read for the
\* pair with the raw value that was passed to write_competitor_data (the
\* collected value, not the formula put in the cell), and nothing else: no entry
\* for a competitor not yet written, absent from the city or disabled.  After
\* every direct call that writes a cell the entry of its (city, competitor,
\* field) is the value passed, also when the triple was written before, and
\* every other entry is what it was.
C26_CacheHoldsWrittenValues ==
    /\ []((pc \in {"write", "save"} /\ wb) =>
            /\ DOMAIN data = Range(config.cities)
            /\ \A city \in Range(config.cities) :
                  /\ DOMAIN data[city] \subseteq ConfiguredNames
                  /\ \A k \in DOMAIN config.competitors :
                        LET competitor == config.competitors[k]
                        IN IF WrittenByNow(city, k)
                             THEN /\ competitor.name \in DOMAIN data[city]
                                  /\ DOMAIN data[city][competitor.name]
                                         = DOMAIN FieldMap(competitor, city)
                                  /\ \A f \in DOMAIN FieldMap(competitor, city) :
                                         SameValue(data[city][competitor.name][f],
                                                   FieldMap(competitor, city)[f])
                             ELSE competitor.name \notin DOMAIN data[city])
    /\ [][(call'.n # call.n /\ Placeable(call')) =>
             LET c == call'
             IN /\ DOMAIN data' = DOMAIN data
                /\ c.competitor.name \in DOMAIN data'[c.city]
                /\ c.field \in DOMAIN data'[c.city][c.competitor.name]
                /\ SameValue(data'[c.city][c.competitor.name][c.field], c.value)
                /\ \A city \in DOMAIN data : \A name \in DOMAIN data[city] :
                      /\ name \in DOMAIN data'[city]
                      /\ \A f \in DOMAIN data[city][name] :
                            <<city, name, f>> # <<c.city, c.competitor.name, c.field>> =>
                                /\ f \in DOMAIN data'[city][name]
                                /\ SameValue(data'[city][name][f], data[city][name][f])
                /\ \A city \in DOMAIN data' : \A name \in DOMAIN data'[city] :
                      \A f \in DOMAIN data'[city][name] :
                          <<city, name, f>> # <<c.city, c.competitor.name, c.field>> =>
                              /\ name \in DOMAIN data[city]
                              /\ f \in DOMAIN data[city][name]]_vars

\* C26 witness: after a complete run a caller has written the same triple twice;
\* the cache holds the value of the second call while the cell holds a markup
\* formula, and an enabled competitor collected for a city without being present
\* there has no cache entry
C26_Witness ==
    /\ pc = "direct_again"
    /\ Placeable(call)
    /\ SameValue(data[call.city][call.competitor.name][call.field], call.value)
    /\ ws[<<row_map[call.city][call.competitor.name], 2>>].value.t = "formula"
    /\ call.field = "convert"
    /\ \E city \in Range(config.cities) : \E k \in DOMAIN config.competitors :
          /\ config.competitors[k].enabled
          /\ FieldMap(config.competitors[k], city) # EmptyDict
          /\ config.competitors[k].name \notin DOMAIN data[city]

-----
(* The row map as an injection *)

\* the rows of a city's block laid out for a competitor, a markup row, the
\* average or the own company
UnitRows(city) ==
    {r \in BlockRows(city) : RowStyle(r) \in {"data", "data_bold", "markup", "average", "own"}}

\* the rows recorded in row_map for a city
MappedRows(city) == {row_map[city][key] : key \in DOMAIN row_map[city]}

\* C27: when the layout is complete, no row number is recorded twice in row_map
\* (neither under two keys of one city nor for two cities), and every competitor,
\* markup, average and own-company row laid out in a city's block is the row of
\* a key of row_map[city], so that each emitted row has an entry of its own.
C27_RowMapInjective ==
    LayoutDone =>
        /\ \A city \in Range(config.cities) :
              /\ \A k1, k2 \in DOMAIN row_map[city] :
                    k1 # k2 => row_map[city][k1] # row_map[city][k2]
              /\ UnitRows(city) = MappedRows(city)
        /\ \A a, b \in Range(config.cities) :
              a # b => MappedRows(a) \cap MappedRows(b) = {}

\* C27 witness of the failure: the layout is complete and a markup row laid out
\* in a city's block is recorded under no key of row_map, its key being taken by
\* the next row with the same label
C27_MarkupRowWithoutEntry ==
    /\ LayoutDone
    /\ \E city \in Range(config.cities) : \E r \in UnitRows(city) :
          /\ RowStyle(r) = "markup"
          /\ r \notin MappedRows(city)
          /\ r + 1 \in MappedRows(city)
          /\ RowStyle(r + 1) = "markup"
          /\ RowLabel(r + 1) = RowLabel(r)

-----------------------------------------------------------------------------
(* The results of a run *)

\* the configured cities where the k-th configured competitor has a row in the
\* output, and those for which step 1 collected a field map
PresentCities(k) ==
    {city \in Range(config.cities) :
        SeqContains(city_competitors[city], config.competitors[k])}
CollectedCities(k) ==
    {city \in Range(config.cities) :
        HasCity(CollectedOf(collected, config.competitors[k]), city)}

\* the results are one per enabled competitor, in configured order
OneResultPerEnabled ==
    /\ Len(results) = EnabledUpTo(Len(config.competitors))
    /\ \A k \in DOMAIN config.competitors :
          config.competitors[k].enabled =>
              /\ results[EnabledUpTo(k)].competitor = config.competitors[k].name
              /\ results[EnabledUpTo(k)].success

-----------------------------------------------------------------------------
(* A read that fails inside the city loop *)

\* row offsets as the settings allow them: the convert value is taken from the
\* row above the city's row
ShiftedOffsets == [f \in FieldSet |-> IF f = "convert" THEN 0 - 1 ELSE 0]

\* PEK configured with the shifted offsets: its price list has "moskva city" in
\* row 1, so the convert read for Moscow is at row 0
PekShifted ==
    [CompetitorConfig("PEK", "pek.xlsx", TRUE, Markups([volume |-> IntV(5)]), FALSE, <<>>)
        EXCEPT !.row_offsets = ShiftedOffsets]

\* the configurations with PEK shifted, alone or next to Energy in either order
OffsetConfigs ==
    {c \in
        {[output_file |-> o.output_file,
          competitors |-> competitors,
          cities |-> cities,
          city_aliases |-> [a \in {"Moscow"} |-> <<"Moskva">>],
          output_config |-> o.output_config,
          own_company |-> o.own_company] :
            o \in OutputOptions,
            competitors \in {s \in DistinctSeqs({PekShifted} \cup
                                   {p \in CompetitorPool : p.name = "Energy"},
                                   MaxCompetitors) :
                                \A i, j \in DOMAIN s : i # j => s[i].name # s[j].name},
            cities \in CityLists} :
        \E k \in DOMAIN c.competitors : c.competitors[k] = PekShifted}

InitOffsets ==
    /\ config \in OffsetConfigs
    /\ files = EmptyDict
    /\ pc = "start"
    /\ idx = 0
    /\ collected = EmptyDict
    /\ city_competitors = EmptyDict
    /\ results = <<>>
    /\ progress = <<>>
    /\ wb = FALSE
    /\ ws = EmptyDict
    /\ markups_ws = EmptyDict
    /\ data = EmptyDict
    /\ row_map = EmptyDict
    /\ markups_row_map = EmptyDict
    /\ current_row = 0
    /\ save_returned = "pending"
    /\ run = "first"
    /\ first_run = NoRun
    /\ call = NoCall

SpecOffsets == InitOffsets /\ [][Next]_vars

\* the row _find_city_row_data selects for a city, and whether one of its six
\* reads is at a coordinate that is no row of a sheet
SelectedRow(competitor, city) ==
    CHOOSE r \in QualifyingRows(competitor, city) :
        \A q \in QualifyingRows(competitor, city) : r <= q
ReadFails(competitor, city) ==
    /\ QualifyingRows(competitor, city) # {}
    /\ \E f \in FieldSet : SelectedRow(competitor, city) + competitor.row_offsets[f] < 1

\* C30: when step 1 is over, a read failure in one city of an opened price list
\* has cost only that city: every configured city whose selected row can be read
\* has its field map in collected, wherever it stands in the city order, and the
\* cities without a qualifying row or with a failing read have none.
C30_CityFailureLocal ==
    CollectionOver =>
        \A competitor \in CollectedCompetitors : \A city \in Range(config.cities) :
            Readable(competitor) =>
                (HasCity(collected[competitor.name], city)
                    <=> (/\ QualifyingRows(competitor, city) # {}
                         /\ ~ReadFails(competitor, city)))

\* C30 witness of the failure: step 1 is over, the read for one city failed, and
\* a city after it in the city order whose selected row can be read was never
\* collected, while the failure is in no result
C30_LaterCityLost ==
    /\ CollectionOver
    /\ \E competitor \in CollectedCompetitors : \E i, j \in DOMAIN config.cities :
          /\ Readable(competitor)
          /\ i < j
          /\ ReadFails(competitor, config.cities[i])
          /\ QualifyingRows(competitor, config.cities[j]) # {}
          /\ ~ReadFails(competitor, config.cities[j])
          /\ ~HasCity(collected[competitor.name], config.cities[j])

-----------------------------------------------------------------------------
(* Direct calls of OutputFileGenerator.write_competitor_data *)

\* the arguments a caller passes: a configured competitor or one that is not, a
\* configured city or one that is not, one of the six fields or another name
Stranger ==
    CompetitorConfig("Baikal", "", TRUE, Markups([convert |-> FloatV(10)]), FALSE, <<>>)
CallCompetitors == Range(config.competitors) \cup {Stranger}
CallCities == Range(config.cities) \cup {"Omsk"}
CallFields == {"convert", "volume", "total"}
CallValues == {IntV(7), FloatV(8)}

\* the configurations of the runs around which the direct calls are made
WriteConfigs == RerunConfigs

InitWrite ==
    /\ Init
    /\ config \in WriteConfigs

\* a caller of the generator calls write_competitor_data itself, before
\* process_all or after it has returned, and then once more for the same
\* (competitor, city, field) with another value
DirectWrite ==
    /\ pc \in {"start", "done", "direct"}
    /\ \E competitor \in CallCompetitors, city \in CallCities,
          field \in CallFields, value \in CallValues :
          /\ pc = "direct" =>
                /\ competitor = call.competitor
                /\ city = call.city
                /\ field = call.field
                /\ value # call.value
          /\ LET written == write_competitor_data(generator, competitor, city, field, value)
             IN /\ ws' = written.ws
                /\ data' = written.data
          /\ call' = [n |-> call.n + 1, competitor |-> competitor, city |-> city,
                      field |-> field, value |-> value]
    /\ pc' = IF pc = "direct" THEN "direct_again" ELSE "direct"
    /\ UNCHANGED <<config, run, first_run, save_returned, files, idx, collected,
                   city_competitors, results, progress, wb, markups_ws, row_map,
                   markups_row_map, current_row>>

NextWrite ==
    \/ Next
    \/ DirectWrite

SpecWrite == InitWrite /\ [][NextWrite]_vars


\* the call c cannot place its value in the generator as it is: no workbook, the
\* city not in row_map, no row for the competitor in the city, or a field that
\* is not one of the six
Unplaceable(c) ==
    \/ ~wb
    \/ c.city \notin DOMAIN row_map
    \/ c.competitor.name \notin DOMAIN row_map[c.city]
    \/ c.field \notin {"convert", "minimum_1", "minimum_2", "volume", "weight_100",
                       "weight_3000"}

\* the rows of the sheet "Data" that belong to the competitor in a city where it
\* is in the presence list: its own row and the rows of its markup rows
RowsOfPresent(competitor) ==
    UNION {IF SeqContains(city_competitors[city], competitor)
             THEN {row_map[city][competitor.name] + d :
                      d \in 0..Len(competitor.markup_rows)}
             ELSE {} : city \in Range(config.cities)}

\* C28: a direct call of write_competitor_data that cannot place its value
\* changes no cell of either sheet, no entry of the cache and no other attribute
\* of the generator; and a step of the write phase of process_all changes cells
\* only in the rows of the competitor being written in the cities where it is in
\* the presence list, and adds cache entries only for those cities.
C28_NoOpWhenUnplaceable ==
    /\ [][(call'.n # call.n /\ Unplaceable(call')) =>
             /\ SameSheet(ws', ws)
             /\ SameData(data', data)
             /\ SameSheet(markups_ws', markups_ws)
             /\ row_map' = row_map
             /\ markups_row_map' = markups_row_map
             /\ DOMAIN files' = DOMAIN files]_vars
    /\ [][(pc = "write" /\ idx <= Len(enabled_competitors)) =>
             LET competitor == enabled_competitors[idx]
             IN /\ DOMAIN ws' = DOMAIN ws
                /\ \A rc \in DOMAIN ws :
                      rc[1] \notin RowsOfPresent(competitor) =>
                          /\ ws'[rc].style = ws[rc].style
                          /\ SameValue(ws'[rc].value, ws[rc].value)
                /\ SameSheet(markups_ws', markups_ws)
                /\ \A city \in Range(config.cities) :
                      ~SeqContains(city_competitors[city], competitor) =>
                          SameCityData(data'[city], data[city])]_vars

\* C28 witness: after a complete run a direct call was made for a configured
\* city and one of the six fields but a competitor without a row in that city,
\* and the sheet and the cache still hold the values of the run
C28_Witness ==
    /\ pc = "direct"
    /\ wb
    /\ call.city \in DOMAIN row_map
    /\ call.field = "convert"
    /\ call.competitor.name \notin DOMAIN row_map[call.city]
    /\ call.competitor \in Range(config.competitors)
    /\ call.competitor.name \notin DOMAIN data[call.city]
    /\ \E city \in Range(config.cities) : data[city] # EmptyDict
====
